---------------------------- MODULE Spec2Model ----------------------------
(***************************************************************************)
(* A model of santricity-client: the capability profile resolver           *)
(* (capabilities.py), the client core / request router (client.py,         *)
(* http.py), the legacy-endpoint fallback (resources/base.py) and the      *)
(* mapping-target resolution (resources/mappings.py, resources/hosts.py).  *)
(*                                                                         *)
(* Python values are represented as follows.                               *)
(*   - None is the string NoneV where a short text is expected, and a      *)
(*     record with none |-> TRUE where a structured value is expected.     *)
(*   - A release string is a sequence of one-character strings, so that    *)
(*     split / isdigit / int can be computed on it.                        *)
(*   - A request path is a record [none, url, slash, segs]: url says the   *)
(*     text has a scheme and a host, slash that it starts with "/", segs   *)
(*     are its segments.                                                   *)
(*   - An exception is an outcome record with k = "err" and the class,     *)
(*     status code and details of the exception.                           *)
(***************************************************************************)
EXTENDS Integers, Sequences, FiniteSets, TLC

VARIABLES
    client,     \* the SANtricityClient object (or the fact that none exists)
    wire,       \* the HTTP exchanges of the latest operation, in order
    last,       \* the latest operation: its call and what the caller received
    pre,        \* the client object as it was when the latest operation began
    heap,       \* CapabilityProfile objects by address (1..3: _BASE_PROFILES)
    calls,      \* the resolve_capabilities calls made so far
    input       \* the release string under resolution

vars == <<client, wire, last, pre, heap, calls, input>>

(***************************************************************************)
(* Bounds                                                                  *)
(***************************************************************************)
MaxParts == 3       \* dot-separated parts of a generated release string
MaxCalls == 2       \* resolve_capabilities calls in one behaviour

NoneV == "<None>"

(***************************************************************************)
(* Text helpers                                                            *)
(***************************************************************************)
Digits == {"0", "1", "2", "3", "4", "5", "6", "7", "8", "9"}

\* int(ch) for a decimal digit
DigitValue(ch) ==
    CASE ch = "0" -> 0 [] ch = "1" -> 1 [] ch = "2" -> 2 [] ch = "3" -> 3
      [] ch = "4" -> 4 [] ch = "5" -> 5 [] ch = "6" -> 6 [] ch = "7" -> 7
      [] ch = "8" -> 8 [] ch = "9" -> 9

\* str.isdigit() of one character
IsDigit(ch) == ch \in Digits

\* "".join(ch for ch in part if ch.isdigit())
RECURSIVE DigitsOf(_)
DigitsOf(part) ==
    IF part = <<>> THEN <<>>
    ELSE IF IsDigit(Head(part)) THEN <<Head(part)>> \o DigitsOf(Tail(part))
    ELSE DigitsOf(Tail(part))

\* int(digits) for a non-empty sequence of decimal digits
RECURSIVE IntOf(_)
IntOf(digits) ==
    IF digits = <<>> THEN 0
    ELSE 10 * IntOf(SubSeq(digits, 1, Len(digits) - 1))
         + DigitValue(digits[Len(digits)])

\* release.split(".")
RECURSIVE SplitDots(_)
SplitDots(s) ==
    IF \A i \in 1..Len(s) : s[i] # "."
    THEN <<s>>
    ELSE LET i == CHOOSE j \in 1..Len(s) :
                     s[j] = "." /\ \A k \in 1..(j - 1) : s[k] # "."
         IN  <<SubSeq(s, 1, i - 1)>> \o SplitDots(SubSeq(s, i + 1, Len(s)))

\* sep.join(parts)
RECURSIVE JoinDots(_)
JoinDots(parts) ==
    IF parts = <<>> THEN <<>>
    ELSE IF Len(parts) = 1 THEN parts[1]
    ELSE parts[1] \o <<".">> \o JoinDots(Tail(parts))

Str(s) == [none |-> FALSE, s |-> s]
NoStr == [none |-> TRUE, s |-> <<>>]
\* bool(text) for an optional text
StrTruthy(t) == ~t.none /\ t.s # <<>>

(***************************************************************************)
(* capabilities.py                                                         *)
(***************************************************************************)
Path(segs) == [none |-> FALSE, url |-> FALSE, slash |-> TRUE, segs |-> segs]
NoPath == [none |-> TRUE, url |-> FALSE, slash |-> FALSE, segs |-> <<>>]
\* bool(path) for an optional path
PathTruthy(p) == ~p.none /\ (p.url \/ p.slash \/ p.segs # <<>>)

VolumeMappings == Path(<<"volume-mappings">>)
V2VolumeMappings == Path(<<"v2", "volume-mappings">>)
VolumeClones == Path(<<"volume-clones">>)
V2VolumeClones == Path(<<"v2", "volume-clones">>)

CapabilityProfile(label, min_version, supports_jwt, mapping_endpoint, legacy_mapping_endpoint, clone_endpoint, legacy_clone_endpoint, detected_release, is_future_release) ==
    [label |-> label, min_version |-> min_version,
     supports_jwt |-> supports_jwt,
     mapping_endpoint |-> mapping_endpoint,
     legacy_mapping_endpoint |-> legacy_mapping_endpoint,
     clone_endpoint |-> clone_endpoint,
     legacy_clone_endpoint |-> legacy_clone_endpoint,
     detected_release |-> detected_release,
     is_future_release |-> is_future_release]

_BASE_PROFILES ==
    << CapabilityProfile(<<"1", "1", ".", "8", "0">>, <<11, 80, 0>>, FALSE,
                         VolumeMappings, VolumeMappings,
                         VolumeClones, VolumeClones, NoStr, FALSE),
       CapabilityProfile(<<"1", "1", ".", "9", "0">>, <<11, 90, 0>>, TRUE,
                         VolumeMappings, VolumeMappings,
                         VolumeClones, VolumeClones, NoStr, FALSE),
       CapabilityProfile(<<"1", "2", ".", "0", "0">>, <<12, 0, 0>>, TRUE,
                         V2VolumeMappings, VolumeMappings,
                         V2VolumeClones, VolumeClones, NoStr, FALSE) >>

NoVersion == [none |-> TRUE, v |-> <<0, 0, 0>>]

\* tuple comparison of two version triples
VersionLess(a, b) ==
    \/ a[1] < b[1]
    \/ a[1] = b[1] /\ a[2] < b[2]
    \/ a[1] = b[1] /\ a[2] = b[2] /\ a[3] < b[3]

VersionAtLeast(a, b) == ~VersionLess(a, b)

\* version.append(int(digits) if digits else 0) for each of parts[:3]
PartValue(part) ==
    LET digits == DigitsOf(part)
    IN  IF digits # <<>> THEN IntOf(digits) ELSE 0

_parse_release(release) ==
    IF ~StrTruthy(release) THEN NoVersion
    ELSE LET parts == SplitDots(release.s)
             first3 == SubSeq(parts, 1, IF Len(parts) < 3 THEN Len(parts) ELSE 3)
             version == [i \in 1..Len(first3) |-> PartValue(first3[i])]
         IN  [none |-> FALSE,
              v |-> [i \in 1..3 |-> IF i <= Len(version) THEN version[i] ELSE 0]]

\* a comparison that drops the equality case of "version_tuple >= min_version"
QualifiesStrictly(version, candidate) == VersionLess(candidate.min_version, version)

\* the loop's test: version_tuple >= candidate.min_version
Qualifies(version, candidate) == VersionAtLeast(version, candidate.min_version)

\* for candidate in profiles: if version_tuple >= candidate.min_version: profile = candidate
RECURSIVE ScanProfiles(_, _, _)
ScanProfiles(profiles, version, profile) ==
    IF profiles = <<>> THEN profile
    ELSE ScanProfiles(Tail(profiles), version,
                      IF Qualifies(version, Head(profiles))
                      THEN Head(profiles) ELSE profile)

\* the value of the profile that resolve_capabilities returns
resolve_capabilities(profiles, release) ==
    LET version_tuple == _parse_release(release)
        newest == profiles[Len(profiles)]
        profile == IF version_tuple.none THEN newest
                   ELSE ScanProfiles(profiles, version_tuple.v, profiles[1])
        is_future_release ==
            /\ ~version_tuple.none
            /\ ~VersionLess(version_tuple.v, profiles[1].min_version)
            /\ VersionLess(newest.min_version, version_tuple.v)
    IN  CapabilityProfile(profile.label, profile.min_version,
                          profile.supports_jwt, profile.mapping_endpoint,
                          profile.legacy_mapping_endpoint,
                          profile.clone_endpoint,
                          profile.legacy_clone_endpoint,
                          IF StrTruthy(release) THEN release
                          ELSE Str(profile.label),
                          is_future_release)

\* the addresses held by the module-level tuple _BASE_PROFILES
BaseAddrs == 1..Len(_BASE_PROFILES)
TableOf(h) == [i \in BaseAddrs |-> h[i]]

\* a resolver that hands out the table's own object instead of a copy
ResolveShared(h, release) ==
    [heap |-> h,
     ref |-> CHOOSE i \in BaseAddrs :
                 h[i].label = resolve_capabilities(TableOf(h), release).label]

\* resolve_capabilities as a call: "return CapabilityProfile(...)" builds a
\* new object and returns its address
ResolveCall(h, release) ==
    [heap |-> Append(h, resolve_capabilities(TableOf(h), release)),
     ref |-> Len(h) + 1]

(***************************************************************************)
(* Outcomes of a call: a normal return or a raised exception.              *)
(***************************************************************************)
NoStatus == 0   \* status_code=None

EmptyBody == [t |-> "empty", v |-> <<>>]
NoDetails == [kind |-> "none", body |-> EmptyBody, reason |-> ""]
NoMsg == [tag |-> "", arg |-> NoneV]

OkOut ==
    [k |-> "ok", cls |-> "", status |-> NoStatus, details |-> NoDetails,
     msg |-> NoMsg, want |-> ""]

\* SANtricityError.__init__(message, status_code=..., details=...)
Err(cls, status, details, msg) ==
    [k |-> "err", cls |-> cls, status |-> status, details |-> details,
     msg |-> msg, want |-> ""]

\* the scripted session has no response left for a request to "want"
StarvedOut(want) ==
    [k |-> "starved", cls |-> "", status |-> NoStatus, details |-> NoDetails,
     msg |-> NoMsg, want |-> want]

Ret(st, val) == [st |-> st, out |-> OkOut, val |-> val]
Raise(st, out) == [st |-> st, out |-> out, val |-> NoneV]

\* r is what a call gave: an exception propagates, a return value goes on to K
Try(r, K(_)) == IF r.out.k # "ok" THEN r ELSE K(r)

\* try: r  except RequestError as exc: H(exc)
CatchRequestError(r, H(_)) ==
    IF r.out.k = "err" /\ r.out.cls = "RequestError" THEN H(r) ELSE r

\* bool(text) for an optional short text
Truthy(x) == x # NoneV /\ x # ""

(***************************************************************************)
(* JSON bodies and server responses                                        *)
(***************************************************************************)
Entry(label, name, id, hostRef, clusterRef, wwn) ==
    [label |-> label, name |-> name, id |-> id, hostRef |-> hostRef,
     clusterRef |-> clusterRef, wwn |-> wwn]

ListBody(entries) == [t |-> "list", v |-> entries]
ObjBody(entry) == [t |-> "obj", v |-> <<entry>>]
TextBody == [t |-> "text", v |-> <<>>]      \* content that is not JSON

\* the JSON payload of a request: the mapping payload's keys, or no payload
Payload(mappableObjectId, targetId, lun, perms) ==
    [none |-> FALSE, mappableObjectId |-> mappableObjectId,
     targetId |-> targetId, lun |-> lun, perms |-> perms]
NoPayload ==
    [none |-> TRUE, mappableObjectId |-> NoneV, targetId |-> NoneV,
     lun |-> NoneV, perms |-> NoneV]

\* an exception of requests raised by the session: its class and str(exc)
Raised(cls, text) == [t |-> "raised", v |-> <<cls, text>>]

\* str.strip() on the exception texts the model uses
StripText(text) ==
    CASE text = " " -> ""
      [] text = " timed out " -> "timed out"
      [] OTHER -> text

Response(net, status, body) == [net |-> net, status |-> status, body |-> body]
NoResp == Response("none", NoStatus, EmptyBody)

(***************************************************************************)
(* http.py                                                                 *)
(***************************************************************************)
\* ensure_success: the status codes that count as success
IsSuccess(status) == 200 <= status /\ status < 300

\* an http.request that parses the body before it looks at the status
HttpRequestParsesFirst(st, resp) ==
    IF resp.body.t = "text"
    THEN Raise(st, Err("UnexpectedResponseError", NoStatus, NoDetails,
                       [tag |-> "invalid_json", arg |-> NoneV]))
    ELSE IF ~IsSuccess(resp.status)
    THEN Raise(st, Err("RequestError", resp.status,
                       [kind |-> "body", body |-> resp.body, reason |-> ""],
                       [tag |-> "api_error", arg |-> NoneV]))
    ELSE IF resp.body.t = "empty" THEN Ret(st, EmptyBody)
    ELSE Ret(st, resp.body)

\* http.request after session.request returned `resp`: ensure_success, then
\* parse_json when the response has content
http_request(st, resp) ==
    IF ~IsSuccess(resp.status)
    THEN Raise(st, Err("RequestError", resp.status,
                       [kind |-> "body", body |-> resp.body, reason |-> ""],
                       [tag |-> "api_error", arg |-> NoneV]))
    ELSE IF resp.body.t = "empty" THEN Ret(st, EmptyBody)
    ELSE IF resp.body.t = "text"
    THEN Raise(st, Err("UnexpectedResponseError", NoStatus, NoDetails,
                       [tag |-> "invalid_json", arg |-> NoneV]))
    ELSE Ret(st, resp.body)

(***************************************************************************)
(* auth/                                                                   *)
(***************************************************************************)
BasicAuth(cred) == [kind |-> "basic", cred |-> cred]
JWTAuth(token) == [kind |-> "jwt", cred |-> token]
SAMLAuthStub == [kind |-> "saml", cred |-> NoneV]

\* d[key] = value on a dict
SetItem(d, key, value) ==
    [k \in DOMAIN d \cup {key} |-> IF k = key THEN value ELSE d[k]]

\* d.update(e)
Update(d, e) ==
    [k \in DOMAIN d \cup DOMAIN e |-> IF k \in DOMAIN e THEN e[k] ELSE d[k]]

\* AuthStrategy.apply(headers): the Authorization header it sets
auth_apply(st, headers) ==
    CASE st.c.auth.kind = "basic" ->
            Ret(st, SetItem(headers, "Authorization", <<"Basic", st.c.auth.cred>>))
      [] st.c.auth.kind = "jwt" ->
            Ret(st, SetItem(headers, "Authorization", <<"Bearer", st.c.auth.cred>>))
      [] st.c.auth.kind = "saml" ->
            Raise(st, Err("NotImplementedError", NoStatus, NoDetails,
                          [tag |-> "saml_placeholder", arg |-> NoneV]))

(***************************************************************************)
(* config.py                                                               *)
(***************************************************************************)
\* default_headers=None
NoHeaders == <<>>

\* ClientConfig.resolved_headers: the fixed headers, then
\* headers.update(default_headers)
resolved_headers(default_headers) ==
    Update([Accept |-> "application/json", ContentType |-> "application/json"],
           default_headers)

(***************************************************************************)
(* client.py                                                               *)
(***************************************************************************)
NoClient ==
    [exists |-> FALSE, base_url |-> <<>>, config_system_id |-> NoneV,
     _system_id |-> NoneV, _base_includes_scope |-> FALSE,
     _inject_system_scope |-> FALSE, _scoped_prefix_cache |-> NoPath,
     capabilities |-> _BASE_PROFILES[1], auth |-> BasicAuth(NoneV),
     default_headers |-> NoHeaders, _session |-> [closed |-> FALSE]]

\* _detect_scoped_base on the path segments of base_url
_detect_scoped_base(segments) ==
    IF \E i \in 1..Len(segments) :
            segments[i] = "storage-systems" /\ i + 1 <= Len(segments)
    THEN LET i == CHOOSE j \in 1..Len(segments) :
                    /\ segments[j] = "storage-systems" /\ j + 1 <= Len(segments)
                    /\ \A k \in 1..(j - 1) :
                           ~(segments[k] = "storage-systems" /\ k + 1 <= Len(segments))
         IN  <<TRUE, segments[i + 1]>>
    ELSE <<FALSE, NoneV>>

\* the kind of list a request to this URL asks the server for
WantOf(url) ==
    LET segs == url.segs
        tail == IF segs = <<>> THEN "" ELSE segs[Len(segs)]
    IN  CASE tail = "storage-systems" -> "systems"
          [] tail = "hosts" -> "hosts"
          [] tail = "host-groups" -> "groups"
          [] OTHER -> "other"

\* a _prepare_headers that layers the configured headers over the strategy's
PrepareHeadersDefaultsLast(st) ==
    Try(auth_apply(st, resolved_headers(NoHeaders)),
        LAMBDA r : Ret(r.st, Update(r.val, st.c.default_headers)))

\* _prepare_headers
_prepare_headers(st) == auth_apply(st, resolved_headers(st.c.default_headers))

\* _prepare_params with no query defaults configured: dict(), then update
_prepare_params(st, params) == params

\* reason = str(exc).strip() or exc.__class__.__name__
ReasonOf(exc) ==
    IF StripText(exc.v[2]) # "" THEN StripText(exc.v[2]) ELSE exc.v[1]

\* _log_request: the system id written to the log, system_id or "unspecified"
_log_request(st) ==
    IF Truthy(st.c._system_id) THEN st.c._system_id ELSE "unspecified"

\* _perform_request: one exchange with the session, then http.request's checks
\* (the entry kept of it carries what request() logged just before)
_perform_request(st, method, url, params, headers, json_payload) ==
    IF st.rs = <<>> THEN Raise(st, StarvedOut(WantOf(url)))
    ELSE LET resp == Head(st.rs)
             sent == [method |-> method, url |-> url, params |-> params,
                      payload |-> json_payload,
                      auth |-> headers.Authorization, resp |-> resp,
                      logged |-> _log_request(st)]
             st1 == [st EXCEPT !.rs = Tail(st.rs), !.log = Append(st.log, sent)]
         IN  CASE resp.net = "httperror" ->
                    Raise(st1, Err("AuthenticationError", NoStatus, NoDetails,
                                   [tag |-> "auth_failed", arg |-> NoneV]))
               [] resp.net = "connfail" ->
                    Raise(st1, Err("RequestError", NoStatus,
                                   [kind |-> "reason", body |-> EmptyBody,
                                    reason |-> ReasonOf(resp.body)],
                                   [tag |-> "comm_failure",
                                    arg |-> ReasonOf(resp.body)]))
               [] OTHER -> http_request(st1, resp)

\* str.strip() on the identifiers the model uses
Strip(s) ==
    CASE s = " " -> ""
      [] s = " W1 " -> "W1"
      [] OTHER -> s

RECURSIVE request(_, _, _, _, _, _)

\* the identifier _discover_system_id takes from the payload, or NoneV
Candidate(payload) ==
    IF payload.t = "list" /\ payload.v # <<>>
    THEN IF Truthy(payload.v[1].wwn) THEN payload.v[1].wwn ELSE payload.v[1].id
    ELSE NoneV

\* a discovery that asks once more when the first answer has no identifier
DiscoverTwice(st) ==
    Try(request(st, "GET", Path(<<"storage-systems">>), NoneV, NoPayload, FALSE),
        LAMBDA r :
            IF Candidate(r.val) # NoneV /\ Strip(Candidate(r.val)) # ""
            THEN Ret(r.st, Strip(Candidate(r.val)))
            ELSE Try(request(r.st, "GET", Path(<<"storage-systems">>), NoneV,
                             NoPayload, FALSE),
                     LAMBDA q :
                        IF Candidate(q.val) # NoneV /\ Strip(Candidate(q.val)) # ""
                        THEN Ret(q.st, Strip(Candidate(q.val)))
                        ELSE Raise(q.st, Err("RequestError", NoStatus, NoDetails,
                                             [tag |-> "no_system_id", arg |-> NoneV]))))

\* _discover_system_id
_discover_system_id(st) ==
    Try(request(st, "GET", Path(<<"storage-systems">>), NoneV, NoPayload, FALSE),
        LAMBDA r :
            IF Candidate(r.val) # NoneV /\ Strip(Candidate(r.val)) # ""
            THEN Ret(r.st, Strip(Candidate(r.val)))
            ELSE Raise(r.st, Err("RequestError", NoStatus, NoDetails,
                                 [tag |-> "no_system_id", arg |-> NoneV])))

\* a variant that never keeps the discovered identifier
GetSystemIdUncached(st) ==
    IF Truthy(st.c._system_id) THEN Ret(st, st.c._system_id)
    ELSE _discover_system_id(st)

\* _get_system_id
_get_system_id(st) ==
    IF Truthy(st.c._system_id) THEN Ret(st, st.c._system_id)
    ELSE Try(_discover_system_id(st),
             LAMBDA r : Ret([r.st EXCEPT !.c._system_id = r.val,
                                         !.c.config_system_id = r.val],
                            r.val))

\* _system_scope_prefix
_system_scope_prefix(st) ==
    IF PathTruthy(st.c._scoped_prefix_cache)
    THEN Ret(st, st.c._scoped_prefix_cache)
    ELSE Try(_get_system_id(st),
             LAMBDA r :
                Ret([r.st EXCEPT !.c._scoped_prefix_cache =
                                      Path(<<"storage-systems", r.val>>)],
                    Path(<<"storage-systems", r.val>>)))

\* normalized.startswith("/storage-systems/")
StartsWithScope(normalized) ==
    /\ Len(normalized.segs) >= 2
    /\ normalized.segs[1] = "storage-systems"

\* path if path.startswith("/") else f"/{path}"
Normalized(path) == [path EXCEPT !.slash = TRUE]

\* a variant that prefixes without asking whether the base URL is scoped
MaybeScopeIgnoresBase(st, path, system_scope) ==
    IF ~system_scope THEN Ret(st, Normalized(path))
    ELSE IF StartsWithScope(Normalized(path)) THEN Ret(st, Normalized(path))
    ELSE Try(_system_scope_prefix(st),
             LAMBDA r : Ret(r.st, Path(r.val.segs \o Normalized(path).segs)))

\* _maybe_scope_path
_maybe_scope_path(st, path, system_scope) ==
    IF ~system_scope THEN Ret(st, Normalized(path))
    ELSE IF StartsWithScope(Normalized(path)) THEN Ret(st, Normalized(path))
    ELSE IF ~st.c._inject_system_scope THEN Ret(st, Normalized(path))
    ELSE Try(_system_scope_prefix(st),
             LAMBDA r : Ret(r.st, Path(r.val.segs \o Normalized(path).segs)))

\* _resolve_url: urljoin(base_url + "/", scoped_path.lstrip("/"))
_resolve_url(st, path, system_scope) ==
    IF path.url THEN Ret(st, [raw |-> TRUE, segs |-> path.segs])
    ELSE Try(_maybe_scope_path(st, path, system_scope),
             LAMBDA r : Ret(r.st, [raw |-> FALSE,
                                   segs |-> r.st.c.base_url \o r.val.segs]))

\* bookkeeping: the call to request(path) has come back with r's outcome
Returned(r, path) ==
    [r EXCEPT !.st.returns = Append(@, [path |-> path, out |-> r.out])]

\* SANtricityClient.request
request(st, method, path, params, json_payload, system_scope) ==
    Returned(
        Try(_resolve_url(st, path, system_scope),
            LAMBDA u :
                Try(_prepare_headers(u.st),
                    LAMBDA h :
                        _perform_request(h.st, method, u.val,
                                         _prepare_params(h.st, params),
                                         h.val, json_payload))),
        path)

\* a validation that accepts every strategy
ValidateNothing(auth, capabilities) == FALSE

\* _validate_auth_strategy: TRUE when it raises AuthenticationError
_validate_auth_strategy(auth, capabilities) ==
    auth.kind = "jwt" /\ ~capabilities.supports_jwt

\* SANtricityClient.__init__: the object built, before the auth validation
NewClient(base_url, auth_strategy, release_version, system_id) ==
    LET detected == _detect_scoped_base(base_url.segs)
        base_includes_scope == detected[1]
        parsed_system_id == detected[2]
        initial_system_id == IF Truthy(system_id) THEN system_id
                             ELSE parsed_system_id
    IN  [exists |-> TRUE,
         base_url |-> base_url.segs,     \* base_url.rstrip("/")
         config_system_id |-> initial_system_id,
         _system_id |-> initial_system_id,
         _base_includes_scope |-> base_includes_scope,
         _inject_system_scope |-> ~base_includes_scope,
         _scoped_prefix_cache |-> NoPath,
         capabilities |-> resolve_capabilities(_BASE_PROFILES, release_version),
         auth |-> auth_strategy,
         default_headers |-> NoHeaders,
         _session |-> [closed |-> FALSE]]     \* session or requests.Session()

\* SANtricityClient.__enter__
__enter__(c) == c

\* SANtricityClient.close: self._session.close()
close(c) == [c EXCEPT !._session.closed = TRUE]

\* an __exit__ that leaves the session open
ExitWithoutClose(c, exc) == [c |-> c, suppress |-> FALSE]

\* SANtricityClient.__exit__(exc_type, exc, tb): close, then return None, which
\* does not suppress the exception
__exit__(c, exc) == [c |-> close(c), suppress |-> FALSE]

(***************************************************************************)
(* resources/base.py                                                       *)
(***************************************************************************)
RecoverableStatuses == {404, 405}

\* a can_retry that also retries errors without a status code
CanRetryWithoutStatus(fallback_path, path, exc) ==
    /\ PathTruthy(fallback_path)
    /\ fallback_path # path
    /\ exc.status \in RecoverableStatuses \cup {NoStatus}

\* can_retry
CanRetry(fallback_path, path, exc) ==
    /\ PathTruthy(fallback_path)
    /\ fallback_path # path
    /\ exc.status \in RecoverableStatuses

\* a fallback that reports the primary call's error when the retry fails too
FallbackKeepsFirstError(st, method, path, params, payload, fallback_path, system_scope) ==
    CatchRequestError(
        request(st, method, path, params, payload, system_scope),
        LAMBDA r :
            IF CanRetry(fallback_path, path, r.out)
            THEN CatchRequestError(
                     request(r.st, method, fallback_path, params, payload,
                             system_scope),
                     LAMBDA r2 : Raise(r2.st, r.out))
            ELSE r)

\* ResourceBase._request_with_fallback
_request_with_fallback(st, method, path, params, payload, fallback_path, system_scope) ==
    CatchRequestError(
        request(st, method, path, params, payload, system_scope),
        LAMBDA r :
            IF CanRetry(fallback_path, path, r.out)
            THEN request(r.st, method, fallback_path, params, payload,
                         system_scope)
            ELSE r)

\* ResourceBase._get
_get(st, path) ==
    _request_with_fallback(st, "GET", path, NoneV, NoPayload, NoPath, TRUE)

\* ResourceBase._post
_post(st, path, payload) ==
    _request_with_fallback(st, "POST", path, NoneV, payload, NoPath, TRUE)

(***************************************************************************)
(* resources/mappings.py, clones.py, pools.py, volumes.py, hosts.py        *)
(***************************************************************************)
mappings_list(st) ==
    _request_with_fallback(st, "GET", st.c.capabilities.mapping_endpoint,
                           NoneV, NoPayload,
                           st.c.capabilities.legacy_mapping_endpoint, TRUE)

mappings_create(st, payload) ==
    _request_with_fallback(st, "POST", st.c.capabilities.mapping_endpoint,
                           NoneV, payload,
                           st.c.capabilities.legacy_mapping_endpoint, TRUE)

clones_list(st) ==
    _request_with_fallback(st, "GET", st.c.capabilities.clone_endpoint,
                           NoneV, NoPayload,
                           st.c.capabilities.legacy_clone_endpoint, TRUE)

clones_create(st, payload) ==
    _request_with_fallback(st, "POST", st.c.capabilities.clone_endpoint,
                           NoneV, payload,
                           st.c.capabilities.legacy_clone_endpoint, TRUE)

pools_list(st) == _get(st, Path(<<"storage-pools">>))

volumes_list(st) == _get(st, Path(<<"volumes">>))

hosts_list(st) == _get(st, Path(<<"hosts">>))

hosts_list_groups(st) == _get(st, Path(<<"host-groups">>))

\* "for x in <data>" over something that is not a list
NotIterable(r) ==
    Raise(r.st, Err(IF r.val.t = "empty" THEN "TypeError" ELSE "AttributeError",
                    NoStatus, NoDetails,
                    [tag |-> "not_a_list", arg |-> NoneV]))

\* the loop of get_by_name: <<host>> for the first match, <<>> for None
RECURSIVE FirstHost(_, _)
FirstHost(entries, name) ==
    IF entries = <<>> THEN <<>>
    ELSE IF Head(entries).label = name \/ Head(entries).name = name
    THEN <<Head(entries)>>
    ELSE FirstHost(Tail(entries), name)

\* HostsResource.get_by_name
hosts_get_by_name(st, name) ==
    Try(hosts_list(st),
        LAMBDA r : IF r.val.t # "list" THEN NotIterable(r)
                   ELSE Ret(r.st, FirstHost(r.val.v, name)))

\* HostsResource.find_host
hosts_find_host(st, label) == hosts_get_by_name(st, label)

\* the loop of find_group: <<group>> for the first match, <<>> for None
RECURSIVE FirstGroup(_, _)
FirstGroup(entries, identifier) ==
    IF entries = <<>> THEN <<>>
    ELSE IF \/ Head(entries).label = identifier
            \/ Head(entries).name = identifier
            \/ Head(entries).id = identifier
            \/ Head(entries).clusterRef = identifier
    THEN <<Head(entries)>>
    ELSE FirstGroup(Tail(entries), identifier)

\* HostsResource.find_group
hosts_find_group(st, identifier) ==
    Try(hosts_list_groups(st),
        LAMBDA r : IF r.val.t # "list" THEN NotIterable(r)
                   ELSE Ret(r.st, FirstGroup(r.val.v, identifier)))

ResolutionError(tag, arg) ==
    Err("ResolutionError", NoStatus, NoDetails, [tag |-> tag, arg |-> arg])

\* a host lookup that takes the hostRef field without looking whether it is set
ResolveHostLabelUnchecked(st, host) ==
    Try(hosts_find_host(st, host),
        LAMBDA r :
            IF r.val = <<>>
            THEN Raise(r.st, ResolutionError("host_not_found", host))
            ELSE Ret(r.st, r.val[1].hostRef))

\* the "if host:" branch of _resolve_target_id
ResolveHostLabel(st, host) ==
    Try(hosts_find_host(st, host),
        LAMBDA r :
            IF r.val = <<>>
            THEN Raise(r.st, ResolutionError("host_not_found", host))
            ELSE IF ~Truthy(r.val[1].hostRef)
            THEN Raise(r.st, ResolutionError("host_no_hostRef", host))
            ELSE Ret(r.st, r.val[1].hostRef))

\* the "if host_group:" branch of _resolve_target_id
ResolveGroupLabel(st, host_group) ==
    Try(hosts_find_group(st, host_group),
        LAMBDA r :
            IF r.val = <<>>
            THEN Raise(r.st, ResolutionError("group_not_found", host_group))
            ELSE IF ~Truthy(r.val[1].clusterRef)
            THEN Raise(r.st, ResolutionError("group_no_clusterRef", host_group))
            ELSE Ret(r.st, r.val[1].clusterRef))

\* a resolution that looks the labels up before it checks the combination
ResolveLooksUpFirst(st, host, host_ref, host_group, cluster_ref) ==
    IF Truthy(host) THEN ResolveHostLabel(st, host)
    ELSE IF Truthy(host_group) THEN ResolveGroupLabel(st, host_group)
    ELSE IF Truthy(host_ref) /\ Truthy(cluster_ref)
    THEN Raise(st, ResolutionError("only_one_ref", NoneV))
    ELSE IF Truthy(host_ref) THEN Ret(st, host_ref)
    ELSE IF Truthy(cluster_ref) THEN Ret(st, cluster_ref)
    ELSE Raise(st, ResolutionError("provide_target", NoneV))

\* VolumeMappingsResource._resolve_target_id
_resolve_target_id(st, host, host_ref, host_group, cluster_ref) ==
    IF ~(Truthy(host) \/ Truthy(host_ref) \/ Truthy(host_group) \/ Truthy(cluster_ref))
    THEN Raise(st, ResolutionError("provide_target", NoneV))
    ELSE IF host_ref # NoneV /\ cluster_ref # NoneV
    THEN Raise(st, ResolutionError("only_one_ref", NoneV))
    ELSE IF Truthy(host_ref) /\ (Truthy(host) \/ Truthy(host_group) \/ Truthy(cluster_ref))
    THEN Raise(st, ResolutionError("host_ref_combined", NoneV))
    ELSE IF Truthy(cluster_ref) /\ (Truthy(host) \/ Truthy(host_group) \/ Truthy(host_ref))
    THEN Raise(st, ResolutionError("cluster_ref_combined", NoneV))
    ELSE IF Truthy(host_ref) THEN Ret(st, host_ref)
    ELSE IF Truthy(cluster_ref) THEN Ret(st, cluster_ref)
    ELSE IF Truthy(host) THEN ResolveHostLabel(st, host)
    ELSE IF Truthy(host_group) THEN ResolveGroupLabel(st, host_group)
    ELSE Raise(st, ResolutionError("unable", NoneV))

\* VolumeMappingsResource.map_volume
map_volume(st, volume_ref, host, host_ref, host_group, cluster_ref, lun, perms) ==
    Try(_resolve_target_id(st, host, host_ref, host_group, cluster_ref),
        LAMBDA t : mappings_create(t.st, Payload(volume_ref, t.val, lun, perms)))

(***************************************************************************)
(* resources/hosts.py: delete_group                                        *)
(***************************************************************************)
\* ResourceBase._delete
_delete(st, path) == request(st, "DELETE", path, NoneV, NoPayload, TRUE)

\* [h for h in hosts if h.get("clusterRef") == group_ref]
GroupHosts(hosts, group_ref) ==
    SelectSeq(hosts, LAMBDA h : h.clusterRef = group_ref)

\* [h.get('label') for h in group_hosts]
LabelsOf(group_hosts) == [i \in 1..Len(group_hosts) |-> group_hosts[i].label]

\* a delete_group that never looks at the hosts
DeleteGroupUnguarded(st, group_ref, force) ==
    _delete(st, Path(<<"host-groups", group_ref>>))

\* HostsResource.delete_group
hosts_delete_group(st, group_ref, force) ==
    IF ~force
    THEN Try(hosts_list(st),
             LAMBDA r :
                IF r.val.t # "list" THEN NotIterable(r)
                ELSE IF GroupHosts(r.val.v, group_ref) # <<>>
                THEN Raise(r.st,
                           Err("RequestError", 400, NoDetails,
                               [tag |-> "group_not_empty",
                                arg |-> LabelsOf(GroupHosts(r.val.v, group_ref))]))
                ELSE _delete(r.st, Path(<<"host-groups", group_ref>>)))
    ELSE _delete(st, Path(<<"host-groups", group_ref>>))

(***************************************************************************)
(* resources/volumes.py: expand                                            *)
(*                                                                         *)
(* Python integers are unbounded. A Python int is a record [neg, mag] with *)
(* mag its magnitude as base-10000 limbs, least significant first, without *)
(* leading zero limbs (zero is the empty sequence).                        *)
(***************************************************************************)
Limb == 10000

\* drop the zero limbs at the most significant end
RECURSIVE Trimmed(_)
Trimmed(limbs) ==
    IF limbs = <<>> THEN <<>>
    ELSE IF limbs[Len(limbs)] = 0 THEN Trimmed(SubSeq(limbs, 1, Len(limbs) - 1))
    ELSE limbs

\* limbs * m + carry for a small natural m
RECURSIVE MulLimbs(_, _, _)
MulLimbs(limbs, m, carry) ==
    IF limbs = <<>>
    THEN IF carry = 0 THEN <<>>
         ELSE <<carry % Limb>> \o MulLimbs(<<>>, m, carry \div Limb)
    ELSE <<(Head(limbs) * m + carry) % Limb>>
         \o MulLimbs(Tail(limbs), m, (Head(limbs) * m + carry) \div Limb)

\* the Python int n, for a small integer n
PyInt(n) ==
    [neg |-> n < 0,
     mag |-> Trimmed(MulLimbs(<<1>>, IF n < 0 THEN 0 - n ELSE n, 0))]

\* base ** exponent
RECURSIVE Power(_, _)
Power(base, exponent) ==
    IF exponent = 0 THEN <<1>>
    ELSE MulLimbs(Power(base, exponent - 1), base, 0)

\* str.lower() of one character
LowerChar(ch) ==
    CASE ch = "B" -> "b" [] ch = "G" -> "g" [] ch = "I" -> "i" [] ch = "K" -> "k"
      [] ch = "M" -> "m" [] ch = "T" -> "t" [] ch = "E" -> "e" [] ch = "S" -> "s"
      [] ch = "Y" -> "y" [] OTHER -> ch

\* unit.lower()
Lower(text) == [i \in 1..Len(text) |-> LowerChar(text[i])]

\* the keys of unit_multipliers
UnitKeys ==
    { <<"b", "y", "t", "e", "s">>, <<"b">>, <<"m", "b">>, <<"g", "b">>,
      <<"t", "b">>, <<"m", "i", "b">>, <<"g", "i", "b">>, <<"t", "i", "b">> }

\* a table in which the decimal units are binary as well
UnitMultipliersAllBinary(key) ==
    CASE key = <<"b", "y", "t", "e", "s">> -> <<1>>
      [] key = <<"b">> -> <<1>>
      [] key \in {<<"m", "b">>, <<"m", "i", "b">>} -> Power(1024, 2)
      [] key \in {<<"g", "b">>, <<"g", "i", "b">>} -> Power(1024, 3)
      [] key \in {<<"t", "b">>, <<"t", "i", "b">>} -> Power(1024, 4)

\* unit_multipliers[key]
unit_multipliers(key) ==
    CASE key = <<"b", "y", "t", "e", "s">> -> <<1>>
      [] key = <<"b">> -> <<1>>
      [] key = <<"m", "b">> -> Power(1000, 2)
      [] key = <<"g", "b">> -> Power(1000, 3)
      [] key = <<"t", "b">> -> Power(1000, 4)
      [] key = <<"m", "i", "b">> -> Power(1024, 2)
      [] key = <<"g", "i", "b">> -> Power(1024, 3)
      [] key = <<"t", "i", "b">> -> Power(1024, 4)

\* int(expansion_size * multiplier) for an integer expansion_size
SizeBytes(expansion_size, multiplier) ==
    [neg |-> expansion_size < 0,
     mag |-> Trimmed(MulLimbs(multiplier,
                              IF expansion_size < 0 THEN 0 - expansion_size
                              ELSE expansion_size, 0))]

ExpandPayload(size_bytes) ==
    [none |-> FALSE, expansionSize |-> size_bytes, sizeUnit |-> "bytes"]

\* an expand that asks the array before it validates the unit
ExpandValidatesLate(st, volume_ref, expansion_size, unit) ==
    IF Lower(unit) \notin UnitKeys
    THEN Try(_post(st, Path(<<"volumes", volume_ref, "expand">>),
                   ExpandPayload(PyInt(expansion_size))),
             LAMBDA r : Raise(r.st, Err("ValueError", NoStatus, NoDetails,
                                        [tag |-> "invalid_unit", arg |-> unit])))
    ELSE _post(st, Path(<<"volumes", volume_ref, "expand">>),
               ExpandPayload(SizeBytes(expansion_size,
                                       unit_multipliers(Lower(unit)))))

\* VolumesResource.expand
volumes_expand(st, volume_ref, expansion_size, unit) ==
    IF Lower(unit) \notin UnitKeys
    THEN Raise(st, Err("ValueError", NoStatus, NoDetails,
                       [tag |-> "invalid_unit", arg |-> unit]))
    ELSE _post(st, Path(<<"volumes", volume_ref, "expand">>),
               ExpandPayload(SizeBytes(expansion_size,
                                       unit_multipliers(Lower(unit)))))

(***************************************************************************)
(* client.py: mappings_report                                              *)
(*                                                                         *)
(* A JSON object is a function from its keys to their values; d.get(k) is  *)
(* None for a key the object lacks.  The mapping objects live at addresses *)
(* in a sequence, so that a copy and the object it was copied from can be  *)
(* told apart.  Identifiers are JSON strings, on which str() changes       *)
(* nothing.                                                                *)
(***************************************************************************)
\* d.get(key)
Get(d, key) == IF key \in DOMAIN d THEN d[key] ELSE NoneV

\* a or b
Or(a, b) == IF Truthy(a) THEN a ELSE b

\* a dict assignment d[key] = value in place of setdefault
SetAlways(d, key, value) == SetItem(d, key, value)

\* d.setdefault(key, value)
SetDefault(d, key, value) == IF key \in DOMAIN d THEN d ELSE SetItem(d, key, value)

\* for cand in candidates: if cand: by_id.setdefault(str(cand), obj)
RECURSIVE IndexObject(_, _, _)
IndexObject(by_id, obj, candidates) ==
    IF candidates = <<>> THEN by_id
    ELSE IndexObject(IF Truthy(Get(obj, Head(candidates)))
                     THEN SetDefault(by_id, Get(obj, Head(candidates)), obj)
                     ELSE by_id,
                     obj, Tail(candidates))

\* for obj in objs: <index obj under its candidate keys>
RECURSIVE IndexAll(_, _, _)
IndexAll(by_id, objs, candidates) ==
    IF objs = <<>> THEN by_id
    ELSE IndexAll(IndexObject(by_id, Head(objs), candidates), Tail(objs),
                  candidates)

VolumeKeys == <<"volumeRef", "id", "mappableObjectId", "mappableObjectRef">>
PoolKeys == <<"id", "volumeGroupRef", "volumeGroupId", "volumeGroupRef">>
HostKeys == <<"hostRef", "id", "clusterRef">>
GroupKeys == <<"clusterRef", "id">>

\* row = dict(m): a new object with m's items
RowCopy(objs, a) == [objs |-> Append(objs, objs[a]), ref |-> Len(objs) + 1]

\* row.setdefault(key, value) on the object at address ref
SetDefaultAt(objs, ref, key, value) ==
    [objs EXCEPT ![ref] = SetDefault(@, key, value)]

\* the first of capacity, reportedSize, currentVolumeSize that is not None
CapacityOf(vol) ==
    IF Get(vol, "capacity") # NoneV THEN <<Get(vol, "capacity")>>
    ELSE IF Get(vol, "reportedSize") # NoneV THEN <<Get(vol, "reportedSize")>>
    ELSE IF Get(vol, "currentVolumeSize") # NoneV
    THEN <<Get(vol, "currentVolumeSize")>>
    ELSE <<>>

\* raid = pool.get("raidLevel"), else the first extent's raidLevel
RaidOf(pool) ==
    IF Truthy(Get(pool, "raidLevel")) THEN Get(pool, "raidLevel")
    ELSE IF "extents" \in DOMAIN pool /\ pool["extents"] # <<>>
    THEN Get(pool["extents"][1], "raidLevel")
    ELSE NoneV

\* the pool part of a row
PoolInfo(objs, ref, pool) ==
    LET o1 == SetDefaultAt(objs, ref, "poolName",
                           Or(Get(pool, "label"), Get(pool, "name")))
        o2 == IF Get(pool, "freeSpace") # NoneV
              THEN SetDefaultAt(o1, ref, "poolFreeSpace", Get(pool, "freeSpace"))
              ELSE o1
    IN  IF Truthy(RaidOf(pool))
        THEN SetDefaultAt(o2, ref, "raidLevel", RaidOf(pool))
        ELSE o2

\* "Resolve volume info"
VolumeInfo(objs, a, ref, vol_by_id, pool_by_id) ==
    LET m == objs[a]
        vid == Or(Get(m, "volumeRef"),
                  Or(Get(m, "mappableObjectId"),
                     Or(Get(m, "mappableObjectRef"), Get(m, "mappableObject"))))
    IN  IF Truthy(vid) /\ vid \in DOMAIN vol_by_id
        THEN LET vol == vol_by_id[vid]
                 o1 == SetDefaultAt(objs, ref, "mappableObjectName",
                                    Or(Get(vol, "name"), Get(vol, "label")))
                 o2 == IF CapacityOf(vol) # <<>>
                       THEN SetDefaultAt(o1, ref, "capacity", CapacityOf(vol)[1])
                       ELSE o1
                 pool_id == Or(Get(vol, "volumeGroupRef"),
                               Or(Get(vol, "poolId"), Get(vol, "storagePoolId")))
             IN  IF Truthy(pool_id) /\ pool_id \in DOMAIN pool_by_id
                 THEN PoolInfo(o2, ref, pool_by_id[pool_id])
                 ELSE o2
        ELSE objs

\* "Resolve mapping target (host or host-group)"
TargetInfo(objs, a, ref, host_by_ref, group_by_cluster) ==
    LET m == objs[a]
        target_id == Or(Get(m, "targetId"),
                        Or(Get(m, "clusterRef"),
                           Or(Get(m, "hostRef"), Get(m, "hostGroup"))))
    IN  IF ~Truthy(target_id) THEN objs
        ELSE IF target_id \in DOMAIN host_by_ref
        THEN LET host_obj == host_by_ref[target_id]
                 o1 == SetDefaultAt(objs, ref, "hostLabel",
                                    Or(Get(host_obj, "label"), Get(host_obj, "name")))
                 o2 == SetDefaultAt(o1, ref, "hostRef",
                                    Or(Get(host_obj, "hostRef"), Get(host_obj, "id")))
             IN  SetDefaultAt(o2, ref, "targetLabel", Get(o2[ref], "hostLabel"))
        ELSE IF target_id \in DOMAIN group_by_cluster
        THEN LET group_obj == group_by_cluster[target_id]
                 o1 == SetDefaultAt(objs, ref, "hostGroup",
                                    Or(Get(group_obj, "label"), Get(group_obj, "name")))
                 o2 == SetDefaultAt(o1, ref, "clusterRef",
                                    Or(Get(group_obj, "clusterRef"),
                                       Get(group_obj, "id")))
             IN  SetDefaultAt(o2, ref, "targetLabel", Get(o2[ref], "hostGroup"))
        ELSE SetDefaultAt(objs, ref, "targetLabel", target_id)

\* "Provide a normalized mapping id for display"
MappingId(objs, a, ref) ==
    LET m == objs[a]
        map_id == Or(Get(m, "mapRef"),
                     Or(Get(m, "mappingRef"),
                        Or(Get(m, "id"), Get(m, "lunMappingRef"))))
    IN  IF Truthy(map_id) THEN SetDefaultAt(objs, ref, "mappingRef", map_id)
        ELSE objs

\* the body of "for m in mappings" for the mapping at address a
ReportRow(objs, a, vol_by_id, pool_by_id, host_by_ref, group_by_cluster) ==
    LET row == RowCopy(objs, a)
        o1 == VolumeInfo(row.objs, a, row.ref, vol_by_id, pool_by_id)
        o2 == TargetInfo(o1, a, row.ref, host_by_ref, group_by_cluster)
    IN  [objs |-> MappingId(o2, a, row.ref), ref |-> row.ref]

\* for m in mappings: ...; result.append(row)
RECURSIVE ReportRows(_, _, _, _, _, _, _, _)
ReportRows(objs, result, a, n, vol_by_id, pool_by_id, host_by_ref, group_by_cluster) ==
    IF a > n THEN [objs |-> objs, result |-> result]
    ELSE LET r == ReportRow(objs, a, vol_by_id, pool_by_id, host_by_ref,
                            group_by_cluster)
         IN  ReportRows(r.objs, Append(result, r.ref), a + 1, n, vol_by_id,
                        pool_by_id, host_by_ref, group_by_cluster)

\* x or [] for what a list call returned
OrEmptyList(val) == IF val.t = "list" THEN val.v ELSE <<>>

\* the report once the five lists are there: the rows, and the listed
\* mapping objects as they are afterwards
Aggregate(st, vols, pools, hosts, host_groups, mappings) ==
    IF vols.t = "obj" \/ pools.t = "obj" \/ hosts.t = "obj" \/ host_groups.t = "obj"
    THEN Raise(st, Err("AttributeError", NoStatus, NoDetails,
                       [tag |-> "str_has_no_get", arg |-> NoneV]))
    ELSE IF mappings.t = "obj"
    THEN Raise(st, Err("ValueError", NoStatus, NoDetails,
                       [tag |-> "dict_of_str", arg |-> NoneV]))
    ELSE LET listed == OrEmptyList(mappings)
             done == ReportRows(listed, <<>>, 1, Len(listed),
                                IndexAll(<<>>, OrEmptyList(vols), VolumeKeys),
                                IndexAll(<<>>, OrEmptyList(pools), PoolKeys),
                                IndexAll(<<>>, OrEmptyList(hosts), HostKeys),
                                IndexAll(<<>>, OrEmptyList(host_groups), GroupKeys))
         IN  Ret(st, [t |-> "rows",
                      v |-> [i \in 1..Len(done.result) |-> done.objs[done.result[i]]],
                      listed |-> SubSeq(done.objs, 1, Len(listed))])

\* SANtricityClient.mappings_report
mappings_report(st) ==
    Try(volumes_list(st), LAMBDA v :
    Try(pools_list(v.st), LAMBDA p :
    Try(hosts_list(p.st), LAMBDA h :
    Try(hosts_list_groups(h.st), LAMBDA g :
    Try(mappings_list(g.st), LAMBDA m :
        Aggregate(m.st, v.val, p.val, h.val, g.val, m.val))))))

(***************************************************************************)
(* resources/pools.py: create_volume; resources/volumes.py: create         *)
(*                                                                         *)
(* The caller's payload is the object at address a of objs; the result     *)
(* carries objs as it is after the call.                                   *)
(***************************************************************************)
\* VolumesResource.create
volumes_create(st, payload) == _post(st, Path(<<"volumes">>), payload)

\* r with the objects as the call left them
WithObjs(r, objs) == [st |-> r.st, out |-> r.out, val |-> r.val, objs |-> objs]

\* body = dict(payload); body.setdefault("poolId", pool_ref)
BodyFor(objs, a, pool_ref) ==
    LET body == RowCopy(objs, a)
    IN  [objs |-> SetDefaultAt(body.objs, body.ref, "poolId", pool_ref),
         ref |-> body.ref]

\* try: _post(pool path, body)  except RequestError: 404/405 -> volumes.create
CreateVolumeWith(st, pool_ref, b) ==
    WithObjs(
        CatchRequestError(
            _post(st, Path(<<"storage-pools", pool_ref, "volumes">>), b.objs[b.ref]),
            LAMBDA r :
                IF r.out.status \in {404, 405}
                THEN volumes_create(r.st, b.objs[b.ref])
                ELSE r),
        b.objs)

\* PoolsResource.create_volume
pools_create_volume(st, pool_ref, objs, a) ==
    CreateVolumeWith(st, pool_ref, BodyFor(objs, a, pool_ref))

(***************************************************************************)
(* cli.py: volumes create                                                  *)
(***************************************************************************)
\* raise typer.Exit(code=code)
typer_Exit(code) ==
    Err("Exit", NoStatus, NoDetails, [tag |-> "exit", arg |-> code])

\* _handle_request_error: print the failure, raise typer.Exit(code=1)
_handle_request_error(st, exc) == Raise(st, typer_Exit(1))

\* for volume in volumes: label = name or label; label == volume_name
NameTaken(volumes, volume_name) ==
    \E i \in DOMAIN volumes :
        Or(Get(volumes[i], "name"), Get(volumes[i], "label")) = volume_name

\* a uniqueness check that accepts every name
EnsureNothing(st, volume_name) == Ret(st, NoneV)

\* _ensure_volume_name_is_unique
_ensure_volume_name_is_unique(st, volume_name) ==
    Try(CatchRequestError(volumes_list(st),
                          LAMBDA e : _handle_request_error(e.st, e.out)),
        LAMBDA r :
            IF r.val.t # "list" THEN NotIterable(r)
            ELSE IF NameTaken(r.val.v, volume_name) THEN Raise(r.st, typer_Exit(1))
            ELSE Ret(r.st, NoneV))

\* _build_volume_payload without raid level, block size, tags or payload file
_build_volume_payload(pool_id, name, size, size_unit) ==
    [poolId |-> pool_id, name |-> name, size |-> size,
     sizeUnit |-> Lower(size_unit), dataAssuranceEnabled |-> FALSE]

\* except (RequestError, AuthenticationError): report, exit with code 1
CatchForExit(r) ==
    IF r.out.k = "err" /\ r.out.cls \in {"RequestError", "AuthenticationError"}
    THEN Raise(r.st, typer_Exit(1))
    ELSE r

\* result = client.pools.create_volume(pool_id, payload); _echo_json(result)
CreateAndEcho(st, pool_id, payload) ==
    Try(pools_create_volume(st, pool_id, <<payload>>, 1),
        LAMBDA r : Ret(r.st, r.val))

\* the body of the with statement of volumes_create
VolumesCreateBody(st, pool_id, name, payload, require_unique_name) ==
    CatchForExit(
        IF require_unique_name
        THEN Try(_ensure_volume_name_is_unique(st, name),
                 LAMBDA u : CreateAndEcho(u.st, pool_id, payload))
        ELSE CreateAndEcho(st, pool_id, payload))

\* leaving "with _build_client(...) as client": __exit__ runs on every path
LeaveWith(r) == [r EXCEPT !.st.c = __exit__(r.st.c, r.out).c]

\* the exit code of the process: 0 when the command returns, the code of
\* typer.Exit, 1 for an exception that nothing catches
ExitCode(out) ==
    IF out.k = "ok" THEN 0
    ELSE IF out.cls = "Exit" THEN out.msg.arg
    ELSE 1

\* santricity volumes create --pool-id ... --name ... --size ...
cli_volumes_create(st, pool_id, name, require_unique_name) ==
    LeaveWith(VolumesCreateBody(st, pool_id, name,
                                _build_volume_payload(pool_id, name, "10",
                                                      <<"G", "B">>),
                                require_unique_name))

(***************************************************************************)
(* resources/system.py                                                     *)
(***************************************************************************)
\* str.lower() on the module and component names the model uses
LowerName(text) ==
    CASE text = "bundleDisplay" -> "bundledisplay"
      [] text = "BundleDisplay" -> "bundledisplay"
      [] text = "Management" -> "management"
      [] text = "symbolApi" -> "symbolapi"
      [] text = "SymbolApi" -> "symbolapi"
      [] text = "symbolVersion" -> "symbolversion"
      [] OTHER -> text

\* str.strip() on the version texts the model uses
StripVersion(text) ==
    CASE text = " " -> ""
      [] text = " 11.80 " -> "11.80"
      [] OTHER -> text

\* isinstance(value, str): the model writes every other value as NoneV
IsStr(value) == value # NoneV

\* the loop of _extract_code_version and _extract_component
RECURSIVE FirstVersion(_, _, _, _)
FirstVersion(entries, name_key, version_key, target) ==
    IF entries = <<>> THEN NoneV
    ELSE IF /\ IsStr(Get(Head(entries), name_key))
            /\ LowerName(Get(Head(entries), name_key)) = target
            /\ IsStr(Get(Head(entries), version_key))
            /\ StripVersion(Get(Head(entries), version_key)) # ""
         THEN StripVersion(Get(Head(entries), version_key))
         ELSE FirstVersion(Tail(entries), name_key, version_key, target)

\* _extract_code_version on a dict payload
_extract_code_version(payload, module_name) ==
    IF "codeVersions" \notin DOMAIN payload THEN NoneV
    ELSE FirstVersion(payload.codeVersions, "codeModule", "versionString",
                      LowerName(module_name))

\* _extract_component on a dict payload
_extract_component(payload, component_name) ==
    IF "components" \notin DOMAIN payload THEN NoneV
    ELSE FirstVersion(payload.components, "name", "version",
                      LowerName(component_name))

\* the priorities of _select_version
Priorities == <<"bundleDisplay", "management", "symbolApi", "symbolVersion">>

\* a selection that prefers the last source over the first
SelectLastVersion(summary) ==
    IF \E i \in DOMAIN Priorities : Truthy(summary[Priorities[i]])
    THEN LET i == CHOOSE j \in DOMAIN Priorities :
                     /\ Truthy(summary[Priorities[j]])
                     /\ \A k \in DOMAIN Priorities :
                            k > j => ~Truthy(summary[Priorities[k]])
         IN  <<summary[Priorities[i]], Priorities[i]>>
    ELSE <<NoneV, NoneV>>

\* _select_version: the first key whose value is a non-blank text
_select_version(summary) ==
    IF \E i \in DOMAIN Priorities :
          IsStr(summary[Priorities[i]]) /\ StripVersion(summary[Priorities[i]]) # ""
    THEN LET i == CHOOSE j \in DOMAIN Priorities :
                     /\ IsStr(summary[Priorities[j]])
                     /\ StripVersion(summary[Priorities[j]]) # ""
                     /\ \A k \in 1..(j - 1) :
                            ~(IsStr(summary[Priorities[k]])
                              /\ StripVersion(summary[Priorities[k]]) # "")
         IN  <<summary[Priorities[i]], Priorities[i]>>
    ELSE <<NoneV, NoneV>>

\* _devmgr_root on the path of base_url: up to the first /devmgr, else /devmgr
_devmgr_root(segs) ==
    IF \E i \in DOMAIN segs : segs[i] = "devmgr"
    THEN SubSeq(segs, 1, CHOOSE i \in DOMAIN segs :
                            segs[i] = "devmgr" /\ \A k \in 1..(i - 1) : segs[k] # "devmgr")
    ELSE <<"devmgr">>

\* _buildinfo_url: an absolute URL
_buildinfo_url(st) ==
    [none |-> FALSE, url |-> TRUE, slash |-> FALSE,
     segs |-> _devmgr_root(st.c.base_url) \o <<"utils", "buildinfo">>]

FirmwarePath == Path(<<"firmware", "embedded-firmware", "1", "versions">>)

\* build_info
system_build_info(st) ==
    request(st, "GET", _buildinfo_url(st), NoneV, NoPayload, FALSE)

\* firmware_versions
system_firmware_versions(st) ==
    _request_with_fallback(st, "GET", FirmwarePath, NoneV, NoPayload, NoPath, FALSE)

\* payload.get(...) on a payload that is not a dict
NoGet(r) ==
    Raise(r.st, Err("AttributeError", NoStatus, NoDetails,
                    [tag |-> "no_get", arg |-> NoneV]))

\* errors.append(f"<what>: {exc}")
ErrorLine(what, exc) == [what |-> what, msg |-> exc.msg]

\* the first try statement of release_summary: val is the summary so far
SummaryOfFirmware(f) ==
    IF f.out.k = "err" /\ f.out.cls = "RequestError"
    THEN Ret(f.st, [bundleDisplay |-> NoneV, management |-> NoneV,
                    errors |-> <<ErrorLine("firmware versions", f.out)>>])
    ELSE Try(f, LAMBDA r :
            IF r.val.t # "obj" THEN NoGet(r)
            ELSE Ret(r.st,
                     [bundleDisplay |-> _extract_code_version(r.val.v[1], "bundleDisplay"),
                      management |-> _extract_code_version(r.val.v[1], "management"),
                      errors |-> <<>>]))

\* the second try statement, and the selection
SummaryOfBuildInfo(b, sofar, Select(_)) ==
    IF b.out.k = "err" /\ b.out.cls = "RequestError"
    THEN Ret(b.st, Select([bundleDisplay |-> sofar.bundleDisplay,
                           management |-> sofar.management,
                           symbolApi |-> NoneV, symbolVersion |-> NoneV,
                           errors |-> Append(sofar.errors,
                                             ErrorLine("buildinfo", b.out))]))
    ELSE Try(b, LAMBDA r :
            IF r.val.t # "obj" THEN NoGet(r)
            ELSE Ret(r.st,
                     Select([bundleDisplay |-> sofar.bundleDisplay,
                             management |-> sofar.management,
                             symbolApi |-> _extract_component(r.val.v[1], "symbolapi"),
                             symbolVersion |-> _extract_component(r.val.v[1], "symbolversion"),
                             errors |-> sofar.errors])))

\* summary["version"], summary["source"] = self._select_version(summary)
WithSelection(summary) ==
    [version |-> _select_version(summary)[1], source |-> _select_version(summary)[2],
     bundleDisplay |-> summary.bundleDisplay, management |-> summary.management,
     symbolApi |-> summary.symbolApi, symbolVersion |-> summary.symbolVersion,
     errors |-> summary.errors]

\* release_summary
system_release_summary(st) ==
    Try(SummaryOfFirmware(system_firmware_versions(st)),
        LAMBDA f : SummaryOfBuildInfo(system_build_info(f.st), f.val,
                                      LAMBDA summary : WithSelection(summary)))

(***************************************************************************)
(* The environment: what callers pass in and what the array answers        *)
(***************************************************************************)
MaxEntries == 2     \* entries in a host or host-group list the array returns

SeqsUpTo(S, n) == UNION {[1..k -> S] : k \in 0..n}

ErrorEntry == Entry("error", NoneV, NoneV, NoneV, NoneV, NoneV)
HttpError(status) == Response("ok", status, ObjBody(ErrorEntry))

SystemLists ==
    { <<>>,
      <<Entry(NoneV, NoneV, NoneV, NoneV, NoneV, "W1")>>,
      <<Entry(NoneV, NoneV, "I1", NoneV, NoneV, NoneV),
        Entry(NoneV, NoneV, NoneV, NoneV, NoneV, "W1")>> }

HostEntries ==
    { Entry("h1", NoneV, NoneV, "r1", NoneV, NoneV),
      Entry("h1", NoneV, NoneV, NoneV, NoneV, NoneV),
      Entry("h2", "h1", NoneV, "r2", "c1", NoneV) }

GroupEntries ==
    { Entry("g1", NoneV, NoneV, NoneV, "c1", NoneV),
      Entry("g1", NoneV, "i1", NoneV, NoneV, NoneV),
      Entry("g2", NoneV, NoneV, NoneV, "g1", NoneV) }

\* the answers the array may give to a request for the given kind of data
RespFor(want) ==
    CASE want = "systems" ->
            {Response("ok", 200, ListBody(l)) : l \in SystemLists}
            \cup {HttpError(404), HttpError(500)}
      [] want = "hosts" ->
            {Response("ok", 200, ListBody(l)) : l \in SeqsUpTo(HostEntries, MaxEntries)}
            \cup {Response("ok", 200, EmptyBody), HttpError(404), HttpError(500)}
      [] want = "groups" ->
            {Response("ok", 200, ListBody(l)) : l \in SeqsUpTo(GroupEntries, MaxEntries)}
            \cup {Response("ok", 200, EmptyBody), HttpError(404), HttpError(500)}
      [] OTHER ->
            { Response("ok", 200, ObjBody(Entry(NoneV, NoneV, "new1", NoneV, NoneV, NoneV))),
              Response("ok", 204, EmptyBody),
              Response("ok", 200, TextBody),
              HttpError(401), HttpError(404), HttpError(405), HttpError(500),
              Response("connfail", NoStatus,
                       Raised("ConnectionError", "connection refused")),
              Response("connfail", NoStatus, Raised("Timeout", " ")),
              Response("httperror", NoStatus, EmptyBody) }

BaseUrls ==
    { [segs |-> <<"devmgr", "v2">>, trailing |-> FALSE],
      [segs |-> <<"devmgr", "v2">>, trailing |-> TRUE],
      [segs |-> <<"devmgr", "v2", "storage-systems", "ABC">>, trailing |-> FALSE],
      [segs |-> <<"devmgr", "v2", "storage-systems">>, trailing |-> TRUE] }

SystemIds == {NoneV, "S1"}

R_None == NoStr
R_11_70 == Str(<<"1", "1", ".", "7", "0">>)
R_11_90 == Str(<<"1", "1", ".", "9", "0">>)
R_12_0 == Str(<<"1", "2", ".", "0">>)
ClientReleases == {R_None, R_11_70, R_11_90, R_12_0}

AuthStrategies == {BasicAuth("u:p"), JWTAuth("tok1"), SAMLAuthStub}

NoTarget == [host |-> NoneV, host_ref |-> NoneV, host_group |-> NoneV,
             cluster_ref |-> NoneV]

Call(name, method, path, system_scope, payload, target) ==
    [name |-> name, method |-> method, path |-> path,
     system_scope |-> system_scope, payload |-> payload, target |-> target]

NoCall == Call("", "", NoPath, FALSE, NoPayload, NoTarget)
NoLast == [call |-> NoCall, out |-> OkOut, val |-> NoneV, returns |-> <<>>]

SomePayload == Payload("vol1", "t1", "0", NoneV)

RequestPaths ==
    { Path(<<"volumes">>),
      [Path(<<"volumes">>) EXCEPT !.slash = FALSE],
      Path(<<"storage-systems", "X9", "volumes">>),
      Path(<<"storage-systems">>),
      [Path(<<"other-host", "api">>) EXCEPT !.url = TRUE] }

(***************************************************************************)
(* Running one operation against a scripted session                        *)
(***************************************************************************)
\* the facade method the call names, run on client c with the session
\* answering from rs, one response per request, in order
Run(c, call, rs) ==
    LET st == [c |-> c, rs |-> rs, log |-> <<>>, returns |-> <<>>]
    IN  CASE call.name = "mappings.list" -> mappings_list(st)
          [] call.name = "mappings.create" -> mappings_create(st, call.payload)
          [] call.name = "clones.list" -> clones_list(st)
          [] call.name = "clones.create" -> clones_create(st, call.payload)
          [] call.name = "pools.list" -> pools_list(st)
          [] call.name = "volumes.list" -> volumes_list(st)
          [] call.name = "request" ->
                request(st, call.method, call.path, NoneV, call.payload,
                        call.system_scope)
          [] call.name = "hosts.delete_group" ->
                hosts_delete_group(st, call.target.group_ref, call.target.force)
          [] call.name = "volumes.expand" ->
                volumes_expand(st, call.target.volume_ref,
                               call.target.expansion_size, call.target.unit)
          [] call.name = "mappings.map_volume" ->
                map_volume(st, call.payload.mappableObjectId,
                           call.target.host, call.target.host_ref,
                           call.target.host_group, call.target.cluster_ref,
                           call.payload.lun, call.payload.perms)

\* the answers possible for the request that run r stopped at, if any
RespAfter(r) == IF r.out.k = "starved" THEN RespFor(r.out.want) ELSE {NoResp}

\* the answers possible for the next request of the run, if it makes one
NextResp(c, call, rs) == RespAfter(Run(c, call, rs))

\* the run is over: the caller has its result, the client its new state
Commit(call, r) ==
    /\ r.out.k # "starved"
    /\ client' = r.st.c
    /\ wire' = r.st.log
    /\ last' = [call |-> call, out |-> r.out, val |-> r.val,
                returns |-> r.st.returns]
    /\ pre' = client
    /\ UNCHANGED <<heap, calls, input>>

\* one operation, with every request answered as the array chooses
Exec(call) ==
    \E r1 \in NextResp(client, call, <<>>) :
    \E r2 \in NextResp(client, call, <<r1>>) :
    \E r3 \in NextResp(client, call, <<r1, r2>>) :
    \E r4 \in NextResp(client, call, <<r1, r2, r3>>) :
        Commit(call, Run(client, call, <<r1, r2, r3, r4>>))

Idle == last.call.name = ""
Ready == Idle /\ client.exists

(***************************************************************************)
(* Actions                                                                 *)
(***************************************************************************)
\* SANtricityClient(base_url=..., auth_strategy=..., release_version=...,
\* system_id=...)
ConstructFrom(bases, ids, releases, auths) ==
    /\ Idle /\ ~client.exists
    /\ \E base_url \in bases, system_id \in ids, release \in releases,
          auth \in auths :
         LET c == NewClient(base_url, auth, release, system_id)
             call == Call("construct", "", NoPath, FALSE, NoPayload, NoTarget)
         IN  /\ IF _validate_auth_strategy(c.auth, c.capabilities)
                THEN /\ client' = NoClient
                     /\ last' = [call |-> call,
                                 out |-> Err("AuthenticationError", NoStatus,
                                             NoDetails,
                                             [tag |-> "jwt_unavailable",
                                              arg |-> NoneV]),
                                 val |-> [auth |-> auth, release |-> release],
                                 returns |-> <<>>]
                ELSE /\ client' = c
                     /\ last' = [call |-> call, out |-> OkOut,
                                 val |-> [auth |-> auth, release |-> release],
                                 returns |-> <<>>]
             /\ wire' = <<>>
             /\ pre' = client
    /\ UNCHANGED <<heap, calls, input>>

Construct == ConstructFrom(BaseUrls, SystemIds, ClientReleases, AuthStrategies)

MappingsList ==
    Ready /\ Exec(Call("mappings.list", "GET", NoPath, TRUE, NoPayload, NoTarget))

MappingsCreate ==
    Ready /\ Exec(Call("mappings.create", "POST", NoPath, TRUE, SomePayload, NoTarget))

ClonesList ==
    Ready /\ Exec(Call("clones.list", "GET", NoPath, TRUE, NoPayload, NoTarget))

ClonesCreate ==
    Ready /\ Exec(Call("clones.create", "POST", NoPath, TRUE, SomePayload, NoTarget))

PoolsList ==
    Ready /\ Exec(Call("pools.list", "GET", NoPath, TRUE, NoPayload, NoTarget))

VolumesList ==
    Ready /\ Exec(Call("volumes.list", "GET", NoPath, TRUE, NoPayload, NoTarget))

\* client.request(method, path, system_scope=...)
Request ==
    /\ Ready
    /\ \E path \in RequestPaths, system_scope \in BOOLEAN :
          Exec(Call("request", "GET", path, system_scope, NoPayload, NoTarget))

\* the caller has looked at the result; the client is ready for the next call
Return ==
    /\ ~Idle
    /\ last' = NoLast
    /\ wire' = <<>>
    /\ pre' = client
    /\ UNCHANGED <<client, heap, calls, input>>

Init ==
    /\ client = NoClient
    /\ wire = <<>>
    /\ last = NoLast
    /\ pre = NoClient
    /\ heap = _BASE_PROFILES
    /\ calls = <<>>
    /\ input = NoStr

Next ==
    \/ Construct
    \/ MappingsList
    \/ MappingsCreate
    \/ ClonesList
    \/ ClonesCreate
    \/ PoolsList
    \/ VolumesList
    \/ Request
    \/ Return

Spec == Init /\ [][Next]_vars

(***************************************************************************)
(* The resolver on its own: callers resolving release strings and changing *)
(* fields of the profiles they were given                                  *)
(***************************************************************************)
\* the dot-separated parts release strings are built from
ReleaseParts ==
    { <<"1", "1">>, <<"1", "2">>, <<"8", "0">>, <<"9", "0">>, <<"0", "0">>,
      <<>>, <<"v", "1", "3">> }

\* release strings of up to MaxParts parts, and no release at all
Releases ==
    {NoStr} \cup {Str(JoinDots(parts)) : parts \in SeqsUpTo(ReleaseParts, MaxParts) \ {<<>>}}

\* profile = resolve_capabilities(release)
ResolveFor(release) ==
    /\ Len(calls) < MaxCalls
    /\ LET r == ResolveCall(heap, release)
       IN  /\ heap' = r.heap
           /\ calls' = Append(calls, [input |-> release, ref |-> r.ref,
                                      value |-> r.heap[r.ref],
                                      touched |-> FALSE])
    /\ UNCHANGED <<client, wire, last, pre, input>>

\* resolve_capabilities(input)
Resolve == ResolveFor(input)

\* resolve_capabilities(None)
ResolveDefault == ResolveFor(NoStr)

\* profile.supports_jwt = not profile.supports_jwt, on a profile a call returned
\* and the caller has not changed yet
SetField ==
    \E i \in DOMAIN calls :
        /\ ~calls[i].touched
        /\ heap' = [heap EXCEPT ![calls[i].ref].supports_jwt = ~@]
        /\ calls' = [calls EXCEPT ![i].touched = TRUE]
        /\ UNCHANGED <<client, wire, last, pre, input>>

InitCaps ==
    /\ client = NoClient
    /\ wire = <<>>
    /\ last = NoLast
    /\ pre = NoClient
    /\ heap = _BASE_PROFILES
    /\ calls = <<>>
    /\ input \in Releases

NextCaps ==
    \/ Resolve
    \/ ResolveDefault
    \/ SetField

SpecCaps == InitCaps /\ [][NextCaps]_vars

(***************************************************************************)
(* Mapping creation on its own: a client on an unscoped base URL with      *)
(* Basic authentication, and callers mapping a volume to a target          *)
(***************************************************************************)
MapBaseUrls == {[segs |-> <<"devmgr", "v2">>, trailing |-> FALSE]}
MapReleases == {R_None, R_11_90}

ConstructForMapping ==
    ConstructFrom(MapBaseUrls, SystemIds, MapReleases, {BasicAuth("u:p")})

\* what a caller may pass for a target option: nothing, "" or a value
OptionValues(v) == {NoneV, "", v}

\* client.mappings.map_volume("vol1", host=..., host_ref=..., host_group=...,
\* cluster_ref=...)
MapVolume ==
    /\ Ready
    /\ \E host \in OptionValues("h1"), host_ref \in OptionValues("r9"),
          host_group \in OptionValues("g1"), cluster_ref \in OptionValues("c9") :
          Exec(Call("mappings.map_volume", "POST", NoPath, TRUE,
                    Payload("vol1", NoneV, NoneV, NoneV),
                    [host |-> host, host_ref |-> host_ref,
                     host_group |-> host_group, cluster_ref |-> cluster_ref]))

NextMap ==
    \/ ConstructForMapping
    \/ MapVolume
    \/ Return

SpecMap == Init /\ [][NextMap]_vars

(***************************************************************************)
(* Host-group deletion on its own                                          *)
(***************************************************************************)
GroupRefs == {"c1", "c2"}

ConstructForHosts ==
    ConstructFrom(MapBaseUrls, SystemIds, {R_None}, {BasicAuth("u:p")})

\* client.hosts.delete_group(group_ref, force=...)
DeleteGroup ==
    /\ Ready
    /\ \E group_ref \in GroupRefs, force \in BOOLEAN :
          Exec(Call("hosts.delete_group", "DELETE", NoPath, TRUE, NoPayload,
                    [group_ref |-> group_ref, force |-> force]))

NextHosts ==
    \/ ConstructForHosts
    \/ DeleteGroup
    \/ Return

SpecHosts == Init /\ [][NextHosts]_vars

(***************************************************************************)
(* Credentials on the wire: default headers and token refresh              *)
(***************************************************************************)
Tokens == {"tok1", "tok2", "tok3"}

DefaultHeaders ==
    { NoHeaders,
      [Authorization |-> <<"Bearer", "tok1">>],
      [Authorization |-> <<"Basic", "stale">>],
      [Accept |-> "text/plain", Authorization |-> <<"Bearer", "tok2">>] }

\* SANtricityClient(base_url=..., auth_strategy=..., default_headers=...,
\* release_version="12.0")
ConstructForAuth ==
    /\ Idle /\ ~client.exists
    /\ \E system_id \in SystemIds, default_headers \in DefaultHeaders,
          auth \in {BasicAuth("u:p"), JWTAuth("tok1")} :
         /\ client' = [NewClient([segs |-> <<"devmgr", "v2">>, trailing |-> FALSE],
                                 auth, R_12_0, system_id)
                          EXCEPT !.default_headers = default_headers]
         /\ last' = [call |-> Call("construct", "", NoPath, FALSE, NoPayload,
                                   NoTarget),
                     out |-> OkOut,
                     val |-> [auth |-> auth, release |-> R_12_0],
                     returns |-> <<>>]
    /\ wire' = <<>>
    /\ pre' = client
    /\ input' = <<>>
    /\ UNCHANGED <<heap, calls>>

\* JWTAuth.update_token(token) on the strategy object the client holds;
\* input remembers the token it replaces
UpdateToken ==
    /\ Ready
    /\ client.auth.kind = "jwt"
    /\ \E token \in Tokens \ {client.auth.cred} :
         /\ client' = [client EXCEPT !.auth.cred = token]
         /\ pre' = client'
         /\ input' = <<client.auth.cred>>
    /\ UNCHANGED <<wire, last, heap, calls>>

InitAuth ==
    /\ client = NoClient
    /\ wire = <<>>
    /\ last = NoLast
    /\ pre = NoClient
    /\ heap = _BASE_PROFILES
    /\ calls = <<>>
    /\ input = <<>>

NextAuth ==
    \/ ConstructForAuth
    \/ UpdateToken
    \/ MappingsList
    \/ VolumesList
    \/ Return

SpecAuth == InitAuth /\ [][NextAuth]_vars

(***************************************************************************)
(* The mappings report on its own                                          *)
(***************************************************************************)
MaxMappings == 2    \* mappings in the list the array returns

Vol1 == [volumeRef |-> "v1", name |-> "vol1", capacity |-> "100",
         volumeGroupRef |-> "p1"]
Vol2 == [id |-> "v2", name |-> "", label |-> "vol2", reportedSize |-> "200",
         poolId |-> "p2"]
Vol1Again == [volumeRef |-> "v1", label |-> "other", storagePoolId |-> "p9"]

Pool1 == [id |-> "p1", label |-> "pool1", freeSpace |-> "50", raidLevel |-> "raid6"]
Pool2 == [volumeGroupRef |-> "p2", name |-> "pool2",
          extents |-> <<[raidLevel |-> "raid1"]>>]

Pool1Typed == [id |-> "p1", label |-> "pool3", type |-> "raid5"]

Host1 == Entry("h1", NoneV, NoneV, "r1", NoneV, NoneV)
Host2InC1 == Entry("h2", "h1", NoneV, "r2", "c1", NoneV)
Host3ById == Entry(NoneV, "h3", "r3", NoneV, NoneV, NoneV)

Group1 == Entry("g1", NoneV, NoneV, NoneV, "c1", NoneV)
Group2ById == Entry(NoneV, "g2", "i1", NoneV, NoneV, NoneV)

MappingObjects ==
    { [lunMappingRef |-> "m1", volumeRef |-> "v1", targetId |-> "r1", lun |-> "1"],
      [id |-> "m2", mappableObjectId |-> "v2", targetId |-> "c1"],
      [mappingRef |-> "m3", volumeRef |-> "v1", targetId |-> "r2",
       hostLabel |-> NoneV, targetLabel |-> "mine", poolName |-> "mine",
       capacity |-> "1"],
      [volumeRef |-> "v9", hostRef |-> "r3"],
      [clusterRef |-> "i1", hostGroup |-> "named", mappableObject |-> "v2"],
      [targetId |-> "zz"] }

Listing(objs) == Response("ok", 200, ListBody(objs))

VolumeAnswers ==
    { Listing(<<Vol1, Vol2>>), Listing(<<Vol1Again, Vol1>>),
      Response("ok", 200, EmptyBody), HttpError(500) }

PoolAnswers ==
    { Listing(<<Pool1, Pool2>>), Listing(<<Pool1Typed, Pool2>>), Listing(<<>>),
      HttpError(404) }

HostAnswers ==
    { Listing(<<Host1, Host3ById>>), Listing(<<Host1, Host2InC1>>),
      Listing(<<Host2InC1>>), Listing(<<>>),
      Response("ok", 200, ObjBody(ErrorEntry)) }

GroupAnswers ==
    { Listing(<<Group1, Group2ById>>), Listing(<<Group2ById>>),
      Response("ok", 200, EmptyBody) }

MappingAnswers ==
    {Listing(l) : l \in SeqsUpTo(MappingObjects, MaxMappings)}
    \cup {Response("ok", 200, ObjBody(ErrorEntry)), HttpError(500)}

\* SANtricityClient(base_url=..., auth_strategy=BasicAuth(...),
\* release_version="11.90", system_id="S1")
ConstructForReport ==
    ConstructFrom({[segs |-> <<"devmgr", "v2">>, trailing |-> FALSE]}, {"S1"},
                  {R_11_90}, {BasicAuth("u:p")})

\* client.mappings_report(), the array answering its five list requests
MappingsReport ==
    /\ Ready
    /\ \E v \in VolumeAnswers, p \in PoolAnswers, h \in HostAnswers,
          g \in GroupAnswers, m \in MappingAnswers :
         LET call == Call("mappings_report", "GET", NoPath, TRUE, NoPayload,
                          NoTarget)
             st == [c |-> client, rs |-> <<v, p, h, g, m>>, log |-> <<>>,
                    returns |-> <<>>]
         IN  Commit(call, mappings_report(st))

NextReport ==
    \/ ConstructForReport
    \/ MappingsReport
    \/ Return

SpecReport == Init /\ [][NextReport]_vars

(***************************************************************************)
(* The client as a scoped resource: with SANtricityClient(...) as client   *)
(***************************************************************************)
NoScope == [scope |-> "none", raised |-> OkOut]

ConstructForScope ==
    /\ input.scope = "none"
    /\ ConstructFrom({[segs |-> <<"devmgr", "v2">>, trailing |-> FALSE]},
                     SystemIds, {R_12_0}, {BasicAuth("u:p")})

\* the with statement calls __enter__ and binds its result
Enter ==
    /\ client.exists /\ last.call.name = "construct"
    /\ input.scope = "none"
    /\ client' = __enter__(client)
    /\ last' = NoLast
    /\ pre' = client'
    /\ input' = [input EXCEPT !.scope = "in"]
    /\ UNCHANGED <<wire, heap, calls>>

\* a statement of the block
ScopedList == input.scope = "in" /\ MappingsList

\* the statement returned: the block goes on
Continue == input.scope = "in" /\ last.out.k = "ok" /\ Return

\* the block is left, at its end or by the exception a statement raised: the
\* with statement calls __exit__ and re-raises unless that returned true
Exit ==
    /\ input.scope = "in"
    /\ client.exists
    /\ Idle \/ last.out.k = "err"
    /\ LET exc == IF Idle THEN OkOut ELSE last.out
           x == __exit__(client, exc)
       IN  /\ client' = x.c
           /\ last' = [call |-> Call("with", "", NoPath, FALSE, NoPayload, NoTarget),
                       out |-> IF x.suppress THEN OkOut ELSE exc,
                       val |-> NoneV, returns |-> <<>>]
           /\ input' = [scope |-> "left", raised |-> exc]
    /\ pre' = client
    /\ UNCHANGED <<wire, heap, calls>>

\* the caller goes on after the with statement
AfterScope == input.scope = "left" /\ Return

InitScope ==
    /\ client = NoClient
    /\ wire = <<>>
    /\ last = NoLast
    /\ pre = NoClient
    /\ heap = _BASE_PROFILES
    /\ calls = <<>>
    /\ input = NoScope

NextScope ==
    \/ ConstructForScope
    \/ Enter
    \/ ScopedList
    \/ Continue
    \/ Exit
    \/ AfterScope

SpecScope == InitScope /\ [][NextScope]_vars

(***************************************************************************)
(* System-id discovery on its own: every shape of the first entry          *)
(***************************************************************************)
WwnValues == {NoneV, "", " ", "W1", " W1 "}
IdValues == {NoneV, "", " ", "I1"}

SystemEntries ==
    {Entry(NoneV, NoneV, id, NoneV, NoneV, wwn) : id \in IdValues, wwn \in WwnValues}

DiscoveryAnswers ==
    {Listing(<<first>>) : first \in SystemEntries}
    \cup {Listing(<<first, Entry(NoneV, NoneV, "I2", NoneV, NoneV, "W2")>>) :
             first \in SystemEntries}
    \cup {Listing(<<>>), Response("ok", 200, EmptyBody), HttpError(404),
          HttpError(500)}

ListAnswersAfter == {Listing(<<>>), Response("ok", 200, EmptyBody), HttpError(500)}

\* SANtricityClient(base_url="https://array/devmgr/v2", auth_strategy=...)
ConstructForDiscovery ==
    ConstructFrom({[segs |-> <<"devmgr", "v2">>, trailing |-> FALSE]}, {NoneV},
                  {R_11_90}, {BasicAuth("u:p")})

\* client.volumes.list() or client.pools.list(), the array answering the
\* discovery request and the list request, if they are made
ListWithDiscovery ==
    /\ Ready
    /\ \E name \in {"volumes.list", "pools.list"}, d \in DiscoveryAnswers, a \in ListAnswersAfter :
         LET call == Call(name, "GET", NoPath, TRUE, NoPayload, NoTarget)
         IN  Commit(call, Run(client, call,
                              IF Truthy(client._system_id) THEN <<a>> ELSE <<d, a>>))

NextDiscovery ==
    \/ ConstructForDiscovery
    \/ ListWithDiscovery
    \/ Return

SpecDiscovery == Init /\ [][NextDiscovery]_vars

(***************************************************************************)
(* Volume creation in a pool on its own                                    *)
(***************************************************************************)
VolumePayloads ==
    { [name |-> "vol1", size |-> "10"],
      [name |-> "vol1", size |-> "10", poolId |-> "p0"] }

PoolRefs == {"p1"}

ConstructForPools ==
    ConstructFrom({[segs |-> <<"devmgr", "v2">>, trailing |-> FALSE]}, SystemIds,
                  {R_11_90}, {BasicAuth("u:p")})

RunCreate(c, call, rs) ==
    pools_create_volume([c |-> c, rs |-> rs, log |-> <<>>, returns |-> <<>>],
                        call.target.pool_ref, <<call.payload>>, 1)

\* the call is over: the caller has its result and its payload object back
CommitCreate(call, r) ==
    /\ r.out.k # "starved"
    /\ client' = r.st.c
    /\ wire' = r.st.log
    /\ last' = [call |-> call, out |-> r.out, val |-> r.val,
                returns |-> r.st.returns]
    /\ pre' = client
    /\ input' = r.objs[1]
    /\ UNCHANGED <<heap, calls>>

\* client.pools.create_volume(pool_ref, payload)
CreateVolume ==
    /\ Ready
    /\ \E pool_ref \in PoolRefs, payload \in VolumePayloads :
         LET call == Call("pools.create_volume", "POST", NoPath, TRUE, payload,
                          [pool_ref |-> pool_ref])
         IN  \E r1 \in RespAfter(RunCreate(client, call, <<>>)) :
             \E r2 \in RespAfter(RunCreate(client, call, <<r1>>)) :
             \E r3 \in RespAfter(RunCreate(client, call, <<r1, r2>>)) :
             \E r4 \in RespAfter(RunCreate(client, call, <<r1, r2, r3>>)) :
                 CommitCreate(call, RunCreate(client, call, <<r1, r2, r3, r4>>))

NextPools ==
    \/ ConstructForPools
    \/ CreateVolume
    \/ Return

SpecPools == Init /\ [][NextPools]_vars

(***************************************************************************)
(* The command line on its own: volumes create                             *)
(***************************************************************************)
ListedVolume1 == [name |-> "vol1", volumeRef |-> "v1"]
ListedVolume1ByLabel == [name |-> "", label |-> "vol1"]
ListedVolumeOther == [name |-> "other", label |-> "vol1", volumeRef |-> "v2"]

\* what the array may answer to the requests of the command
CliAnswers(want) ==
    IF want = "systems"
    THEN {Listing(<<Entry(NoneV, NoneV, NoneV, NoneV, NoneV, "W1")>>), HttpError(500)}
    ELSE { Listing(<<>>), Listing(<<ListedVolume1>>),
           Listing(<<ListedVolumeOther, ListedVolume1ByLabel>>),
           Listing(<<ListedVolumeOther>>),
           Response("ok", 200, EmptyBody),
           Response("ok", 200, ObjBody(Entry(NoneV, NoneV, "new1", NoneV, NoneV, NoneV))),
           HttpError(401), HttpError(404), HttpError(500),
           Response("connfail", NoStatus, Raised("Timeout", " ")) }

CliNames == {"vol1", "new"}

\* the client _build_client makes for the command
BuiltClient(call) ==
    NewClient([segs |-> <<"devmgr", "v2">>, trailing |-> FALSE],
              BasicAuth("u:p"), R_11_90, call.target.system_id)

\* the command with that client and the answers rs
RunCli(call, rs) ==
    cli_volumes_create(
        [c |-> BuiltClient(call), rs |-> rs, log |-> <<>>, returns |-> <<>>],
        call.target.pool_id, call.target.name, call.target.require_unique_name)

CliAfter(r) == IF r.out.k = "starved" THEN CliAnswers(r.out.want) ELSE {NoResp}

\* the process has ended: its exit code, and the client it used
CommitCli(call, r) ==
    /\ r.out.k # "starved"
    /\ client' = r.st.c
    /\ wire' = r.st.log
    /\ last' = [call |-> call, out |-> r.out, val |-> ExitCode(r.out),
                returns |-> r.st.returns]
    /\ pre' = BuiltClient(call)
    /\ UNCHANGED <<heap, calls, input>>

CliVolumesCreate ==
    /\ Idle
    /\ \E name \in CliNames, require_unique_name \in BOOLEAN, system_id \in SystemIds :
         LET call == Call("cli.volumes.create", "", NoPath, TRUE, NoPayload,
                          [pool_id |-> "p1", name |-> name, system_id |-> system_id,
                           require_unique_name |-> require_unique_name])
         IN  \E r1 \in CliAfter(RunCli(call, <<>>)) :
             \E r2 \in CliAfter(RunCli(call, <<r1>>)) :
             \E r3 \in CliAfter(RunCli(call, <<r1, r2>>)) :
             \E r4 \in CliAfter(RunCli(call, <<r1, r2, r3>>)) :
                 CommitCli(call, RunCli(call, <<r1, r2, r3, r4>>))

NextCli ==
    \/ CliVolumesCreate
    \/ Return

SpecCli == Init /\ [][NextCli]_vars

(***************************************************************************)
(* The release summary on its own                                          *)
(***************************************************************************)
CodeVersion(module, version) == [codeModule |-> module, versionString |-> version]
Component(name, version) == [name |-> name, version |-> version]

FirmwareAnswers ==
    { Response("ok", 200, ObjBody([codeVersions |->
          <<CodeVersion("management", "11.80"), CodeVersion("bundleDisplay", "11.90")>>])),
      Response("ok", 200, ObjBody([codeVersions |->
          <<CodeVersion("BundleDisplay", " "), CodeVersion("Management", " 11.80 ")>>])),
      Response("ok", 200, ObjBody([codeVersions |->
          <<CodeVersion("bundleDisplay", NoneV), CodeVersion(NoneV, "11.90")>>])),
      Response("ok", 200, ObjBody([other |-> "x"])),
      Response("ok", 200, EmptyBody),
      HttpError(404), HttpError(500),
      Response("connfail", NoStatus, Raised("Timeout", " ")) }

BuildInfoAnswers ==
    { Response("ok", 200, ObjBody([components |->
          <<Component("symbolversion", "2.0"), Component("SymbolApi", "1.5")>>])),
      Response("ok", 200, ObjBody([components |->
          <<Component("symbolapi", " "), Component("symbolversion", "2.0")>>])),
      Response("ok", 200, ObjBody([other |-> "x"])),
      Response("ok", 200, EmptyBody),
      HttpError(404), HttpError(401) }

SummaryBaseUrls ==
    { [segs |-> <<"devmgr", "v2">>, trailing |-> FALSE],
      [segs |-> <<"proxy", "devmgr", "v2", "storage-systems", "ABC">>, trailing |-> FALSE],
      [segs |-> <<"api">>, trailing |-> TRUE] }

ConstructForSummary ==
    ConstructFrom(SummaryBaseUrls, SystemIds, {R_11_90}, {BasicAuth("u:p")})

RunSummary(c, rs) ==
    system_release_summary([c |-> c, rs |-> rs, log |-> <<>>, returns |-> <<>>])

SummaryAfter(r, answers) == IF r.out.k = "starved" THEN answers ELSE {NoResp}

\* client.system.release_summary(), the array answering its requests
ReleaseSummary ==
    /\ Ready
    /\ \E f \in SummaryAfter(RunSummary(client, <<>>), FirmwareAnswers) :
       \E b \in SummaryAfter(RunSummary(client, <<f>>), BuildInfoAnswers) :
          Commit(Call("system.release_summary", "GET", NoPath, FALSE, NoPayload,
                      NoTarget),
                 RunSummary(client, <<f, b>>))

NextSummary ==
    \/ ConstructForSummary
    \/ ReleaseSummary
    \/ Return

SpecSummary == Init /\ [][NextSummary]_vars

(***************************************************************************)
(* One HTTP call on its own: http.request on every kind of response        *)
(***************************************************************************)
HttpStatuses == {199, 200, 201, 204, 299, 300, 301, 400, 401, 404, 500}

HttpBodies ==
    { EmptyBody, TextBody, ListBody(<<>>),
      ObjBody(Entry(NoneV, NoneV, "new1", NoneV, NoneV, NoneV)),
      ListBody(<<Entry("h1", NoneV, NoneV, "r1", NoneV, NoneV)>>) }

HttpInputs ==
    {[method |-> method, resp |-> Response("ok", status, body)] :
        method \in {"GET", "POST", "DELETE"}, status \in HttpStatuses,
        body \in HttpBodies}

\* http.request(session, method, url, ...) with the session answering input.resp
HttpRequest ==
    /\ Idle
    /\ LET st == [c |-> client, rs |-> <<>>, log |-> <<>>, returns |-> <<>>]
           r == http_request(st, input.resp)
       IN  last' = [call |-> Call("http.request", input.method, NoPath, FALSE,
                                  NoPayload, NoTarget),
                    out |-> r.out, val |-> r.val, returns |-> <<>>]
    /\ UNCHANGED <<client, wire, pre, heap, calls, input>>

InitHttp ==
    /\ client = NoClient
    /\ wire = <<>>
    /\ last = NoLast
    /\ pre = NoClient
    /\ heap = _BASE_PROFILES
    /\ calls = <<>>
    /\ input \in HttpInputs

NextHttp ==
    \/ HttpRequest
    \/ Return

SpecHttp == InitHttp /\ [][NextHttp]_vars

(***************************************************************************)
(* Volume expansion on its own                                             *)
(***************************************************************************)
MaxAmount == 10         \* the amounts 0..MaxAmount are tried, and -1
LargeAmount == 4096     \* one amount whose product carries across limbs

Amounts == (-1..MaxAmount) \cup {LargeAmount}

\* the units callers pass: the table's, in several spellings, and others
Units ==
    UnitKeys \cup
    { <<"G", "B">>, <<"G", "i", "B">>, <<"B", "y", "t", "e", "s">>,
      <<"T", "I", "B">>, <<"k", "b">>, <<"K", "i", "B">>, <<>>,
      <<"g", "b", " ">> }

ConstructForVolumes ==
    ConstructFrom(MapBaseUrls, SystemIds, {R_None}, {BasicAuth("u:p")})

\* client.volumes.expand("vol1", amount, unit)
Expand ==
    /\ Ready
    /\ \E amount \in Amounts, unit \in Units :
          Exec(Call("volumes.expand", "POST", NoPath, TRUE, NoPayload,
                    [volume_ref |-> "vol1", expansion_size |-> amount,
                     unit |-> unit]))

NextVol ==
    \/ ConstructForVolumes
    \/ Expand
    \/ Return

SpecVol == Init /\ [][NextVol]_vars

(***************************************************************************)
(* What an observer of one finished operation can see                      *)
(***************************************************************************)
FallbackOps == {"mappings.list", "mappings.create", "clones.list", "clones.create"}

Done(names) == last.call.name \in names

IsMappingOp(name) == name \in {"mappings.list", "mappings.create"}

\* the current and the legacy endpoint of the finished operation
CurrentOf(name) ==
    IF IsMappingOp(name) THEN pre.capabilities.mapping_endpoint
    ELSE pre.capabilities.clone_endpoint

LegacyOf(name) ==
    IF IsMappingOp(name) THEN pre.capabilities.legacy_mapping_endpoint
    ELSE pre.capabilities.legacy_clone_endpoint

\* the part of a requested URL after the client's base URL
Rel(e) == SubSeq(e.url.segs, Len(pre.base_url) + 1, Len(e.url.segs))

\* the same without a leading /storage-systems/<id>
Unscoped(rel) ==
    IF Len(rel) >= 3 /\ rel[1] = "storage-systems"
    THEN SubSeq(rel, 3, Len(rel)) ELSE rel

\* the request on the wire is the unscoped GET /storage-systems
IsDiscovery(e) ==
    e.method = "GET" /\ ~e.url.raw /\ Rel(e) = <<"storage-systems">>

\* the request on the wire is addressed to endpoint p
ToEndpoint(e, p) ==
    ~e.url.raw /\ ~IsDiscovery(e) /\ PathTruthy(p) /\ Unscoped(Rel(e)) = p.segs

Refused(e) == e.resp.net = "ok" /\ e.resp.status \in {404, 405}

Failed(resp) == resp.net # "ok" \/ ~(200 <= resp.status /\ resp.status < 300)

PrimaryRequests == {i \in DOMAIN wire : ToEndpoint(wire[i], CurrentOf(last.call.name))}

LegacyRequests == {i \in DOMAIN wire : ToEndpoint(wire[i], LegacyOf(last.call.name))}

LegacyDiffers ==
    /\ PathTruthy(LegacyOf(last.call.name))
    /\ LegacyOf(last.call.name) # CurrentOf(last.call.name)

\* a request beyond the one to the current endpoint was sent
Retried ==
    IF LegacyDiffers THEN LegacyRequests # {}
    ELSE Cardinality(PrimaryRequests) >= 2

(***************************************************************************)
(* C1: a mappings or clones list/create sends a second request exactly     *)
(* when the request to the current endpoint was answered 404 or 405 and    *)
(* the profile has a different legacy endpoint; the second request goes to *)
(* the legacy endpoint with the same method, parameters and payload, and   *)
(* there is never a third.                                                 *)
(***************************************************************************)
C1_RetryOnlyAfterRefusedPrimary ==
    Done(FallbackOps) =>
        /\ Retried <=> /\ \E i \in PrimaryRequests : Refused(wire[i])
                       /\ LegacyDiffers
        /\ Cardinality(PrimaryRequests) <= 1
        /\ LegacyDiffers => Cardinality(LegacyRequests) <= 1
        /\ LegacyDiffers =>
              \A i \in PrimaryRequests, j \in LegacyRequests :
                  /\ i < j
                  /\ wire[j].method = wire[i].method
                  /\ wire[j].params = wire[i].params
                  /\ wire[j].payload = wire[i].payload

\* the retry the claim describes: primary refused, legacy request follows
C1_RetryAfterRefusal ==
    /\ Done(FallbackOps)
    /\ \E i \in PrimaryRequests : Refused(wire[i])
    /\ LegacyRequests # {} /\ LegacyDiffers

(***************************************************************************)
(* C2: the error of a failed mappings or clones operation is the error of  *)
(* the last call it made, class, status code and details unchanged: the    *)
(* primary call's when there was no retry, the legacy call's when both     *)
(* failed; a failing last call never becomes a successful result.          *)
(***************************************************************************)
C2_LastErrorPropagates ==
    Done(FallbackOps) =>
        /\ last.returns # <<>> => last.out = last.returns[Len(last.returns)].out
        /\ (wire # <<>> /\ Failed(wire[Len(wire)].resp)) =>
              /\ last.out.k = "err"
              /\ last.out.status = wire[Len(wire)].resp.status
              /\ wire[Len(wire)].resp.net = "ok" =>
                    /\ last.out.cls = "RequestError"
                    /\ last.out.details.body = wire[Len(wire)].resp.body
        /\ (Retried /\ last.out.k = "err") =>
              last.returns[Len(last.returns)].path = LegacyOf(last.call.name)

\* both the primary and the legacy call failed, with different statuses
C2_BothFailed ==
    /\ Done(FallbackOps)
    /\ Len(wire) = 2
    /\ PrimaryRequests = {1} /\ LegacyRequests = {2} /\ LegacyDiffers
    /\ wire[1].resp.status = 404 /\ wire[2].resp.status = 500
    /\ last.out.k = "err" /\ last.out.status = 500

\* the paths the finished operation itself asks the client for
Asked ==
    CASE last.call.name = "request" -> {last.call.path.segs}
      [] last.call.name \in FallbackOps ->
            {CurrentOf(last.call.name).segs, LegacyOf(last.call.name).segs}
      [] last.call.name = "pools.list" -> {<<"storage-pools">>}
      [] last.call.name = "volumes.list" -> {<<"volumes">>}
      [] last.call.name = "volumes.expand" ->
            {<<"volumes", last.call.target.volume_ref, "expand">>}
      [] last.call.name = "hosts.delete_group" ->
            {<<"hosts">>, <<"host-groups", last.call.target.group_ref>>}
      [] last.call.name = "mappings.map_volume" ->
            {<<"hosts">>, <<"host-groups">>,
             CurrentOf("mappings.create").segs, LegacyOf("mappings.create").segs}
      [] OTHER -> {}

\* an operation on an existing client has finished
OpDone == pre.exists /\ ~Idle /\ last.call.name # "construct"

\* a GET /storage-systems on the wire that the caller did not ask for
OwnDiscovery(i) == IsDiscovery(wire[i]) /\ <<"storage-systems">> \notin Asked

\* the identifier of the first entry of a storage-systems answer, or NoneV
FirstId(resp) ==
    IF resp.net = "ok" /\ ~Failed(resp) /\ resp.body.t = "list" /\ resp.body.v # <<>>
    THEN IF Truthy(resp.body.v[1].wwn) THEN resp.body.v[1].wwn
         ELSE IF Truthy(resp.body.v[1].id) THEN resp.body.v[1].id ELSE NoneV
    ELSE NoneV

SuccessfulDiscovery(i) == OwnDiscovery(i) /\ FirstId(wire[i].resp) # NoneV

\* request i carries a /storage-systems/<id> prefix the client put there
Injected(i) ==
    /\ ~wire[i].url.raw /\ ~IsDiscovery(wire[i])
    /\ Len(Rel(wire[i])) >= 3
    /\ Rel(wire[i])[1] = "storage-systems"
    /\ SubSeq(Rel(wire[i]), 3, Len(Rel(wire[i]))) \in Asked

\* the base URL has a "storage-systems" segment followed by an identifier
BaseScoped(base) == \E i \in 1..(Len(base) - 1) : base[i] = "storage-systems"

(***************************************************************************)
(* C3: on a base URL without system scope, a client that knows no system   *)
(* id precedes its first scoped request by one successful GET              *)
(* /storage-systems and prefixes the request with the identifier of the    *)
(* first entry; the identifier is cached: once known it never changes, no  *)
(* later request discovers again, and every scoped request carries it.     *)
(***************************************************************************)
C3_DiscoverOnceThenCache ==
    (OpDone /\ ~BaseScoped(pre.base_url) /\ <<"storage-systems">> \notin Asked) =>
        /\ Truthy(pre._system_id) =>
              /\ \A i \in DOMAIN wire : ~IsDiscovery(wire[i])
              /\ client._system_id = pre._system_id
        /\ \A i \in DOMAIN wire : SuccessfulDiscovery(i) =>
              /\ \A j \in DOMAIN wire : j > i => ~IsDiscovery(wire[j])
              /\ client._system_id = FirstId(wire[i].resp)
        /\ \A i \in DOMAIN wire : Injected(i) =>
              /\ Rel(wire[i])[2] = client._system_id
              /\ ~Truthy(pre._system_id) =>
                    /\ Cardinality({j \in 1..(i - 1) : SuccessfulDiscovery(j)}) = 1
                    /\ \E j \in 1..(i - 1) :
                          /\ SuccessfulDiscovery(j)
                          /\ FirstId(wire[j].resp) = Rel(wire[i])[2]

\* a first scoped request: discovery answered with two systems, then the
\* request under the first one's identifier
C3_DiscoveredAndUsed ==
    /\ OpDone /\ ~Truthy(pre._system_id) /\ Len(wire) = 2
    /\ SuccessfulDiscovery(1) /\ Len(wire[1].resp.body.v) = 2
    /\ Injected(2) /\ client._system_id = "I1"

(***************************************************************************)
(* C4: a client whose base URL already has a /storage-systems/<id> segment *)
(* never adds a system prefix to a relative path and never issues the      *)
(* discovery request: every request goes to base URL + the path asked for. *)
(***************************************************************************)
C4_ScopedBaseNeverPrefixes ==
    (OpDone /\ BaseScoped(pre.base_url)) =>
        \A i \in DOMAIN wire :
            /\ ~wire[i].url.raw => Rel(wire[i]) \in Asked
            /\ ~OwnDiscovery(i)
            /\ ~wire[i].url.raw =>
                  SubSeq(wire[i].url.segs, 1, Len(pre.base_url)) = pre.base_url

\* a scoped request through a client built on a scoped base URL
C4_ScopedBaseUsed ==
    /\ OpDone /\ BaseScoped(pre.base_url)
    /\ last.call.name = "request" /\ last.call.system_scope
    /\ last.call.path.segs = <<"volumes">>
    /\ Len(wire) = 1

(***************************************************************************)
(* C5: constructing a client with the JWT strategy for a release whose     *)
(* profile has supports_jwt false fails with AuthenticationError and makes *)
(* no network call; every other combination constructs a client.           *)
(***************************************************************************)
C5_JwtNeedsSupportingProfile ==
    Done({"construct"}) =>
        /\ wire = <<>>
        /\ IF /\ last.val.auth.kind = "jwt"
              /\ ~resolve_capabilities(_BASE_PROFILES, last.val.release).supports_jwt
           THEN /\ last.out.k = "err"
                /\ last.out.cls = "AuthenticationError"
                /\ ~client.exists
           ELSE /\ last.out.k = "ok"
                /\ client.exists
                /\ client.auth = last.val.auth

\* JWT against release 11.70 was refused
C5_JwtRefused ==
    /\ Done({"construct"})
    /\ last.val.auth.kind = "jwt" /\ last.val.release = R_11_70
    /\ last.out.cls = "AuthenticationError"

\* the table's profiles whose minimum version is at most v
AtMost(v) ==
    {i \in BaseAddrs : ~VersionLess(v, _BASE_PROFILES[i].min_version)}

\* profile p carries the seven fixed fields of table entry t
SameFamily(p, t) ==
    /\ p.label = t.label /\ p.min_version = t.min_version
    /\ p.supports_jwt = t.supports_jwt
    /\ p.mapping_endpoint = t.mapping_endpoint
    /\ p.legacy_mapping_endpoint = t.legacy_mapping_endpoint
    /\ p.clone_endpoint = t.clone_endpoint
    /\ p.legacy_clone_endpoint = t.legacy_clone_endpoint

Oldest == _BASE_PROFILES[1]
Newest == _BASE_PROFILES[Len(_BASE_PROFILES)]

(***************************************************************************)
(* C6: resolve_capabilities(release) returns the profile with the greatest *)
(* minimum version not above the parsed version; the oldest profile,       *)
(* without the future flag, when the version is below every minimum; the   *)
(* newest profile with detected_release = its label when release is        *)
(* absent. is_future_release is true exactly when the parsed version is    *)
(* strictly above the newest minimum, so resolving nothing and resolving   *)
(* the newest label give equal results.                                    *)
(***************************************************************************)
C6_SelectionRule ==
    \A n \in DOMAIN calls :
        LET release == calls[n].input
            res == calls[n].value
            v == _parse_release(release)
        IN  /\ v.none <=> (release.none \/ release.s = <<>>)
            /\ v.none =>
                  /\ SameFamily(res, Newest)
                  /\ res.detected_release = Str(Newest.label)
                  /\ ~res.is_future_release
                  /\ \A m \in DOMAIN calls :
                        calls[m].input = Str(Newest.label) => calls[m].value = res
            /\ (~v.none /\ AtMost(v.v) # {}) =>
                  \E i \in AtMost(v.v) :
                      /\ SameFamily(res, _BASE_PROFILES[i])
                      /\ \A j \in AtMost(v.v) :
                            ~VersionLess(_BASE_PROFILES[i].min_version,
                                         _BASE_PROFILES[j].min_version)
            /\ (~v.none /\ AtMost(v.v) = {}) =>
                  SameFamily(res, Oldest) /\ ~res.is_future_release
            /\ ~v.none =>
                  /\ res.detected_release = release
                  /\ res.is_future_release <=> VersionLess(Newest.min_version, v.v)

\* one behaviour resolved the newest label "12.00" and then nothing at all
C6_LabelThenDefault ==
    /\ Len(calls) = 2
    /\ calls[1].input = Str(<<"1", "2", ".", "0", "0">>)
    /\ calls[2].input = NoStr
    /\ calls[1].value = calls[2].value
    /\ calls[1].value.label = <<"1", "2", ".", "0", "0">>

(***************************************************************************)
(* C7: resolve_capabilities is pure. Calls with the same input return      *)
(* equal values; each call returns an object of its own, so a change to a  *)
(* field of one returned profile leaves the other returned profiles, the   *)
(* fixed table and the result of every later call as they were.            *)
(***************************************************************************)
C7_IndependentCopies ==
    /\ TableOf(heap) = _BASE_PROFILES
    /\ \A n \in DOMAIN calls :
          /\ calls[n].ref \notin BaseAddrs
          /\ calls[n].value = resolve_capabilities(_BASE_PROFILES, calls[n].input)
          /\ ~calls[n].touched => heap[calls[n].ref] = calls[n].value
          /\ \A m \in DOMAIN calls :
                /\ m # n => calls[m].ref # calls[n].ref
                /\ calls[m].input = calls[n].input => calls[m].value = calls[n].value

\* the same release resolved twice; the first result was changed since and
\* differs from the second now
C7_ChangedOneOfTwo ==
    /\ Len(calls) = 2
    /\ calls[1].input = calls[2].input /\ ~calls[1].input.none
    /\ calls[1].touched /\ ~calls[2].touched
    /\ heap[calls[1].ref] # heap[calls[2].ref]
    /\ calls[1].value = calls[2].value

MapDone == Done({"mappings.map_volume"})

TargetOptions == {"host", "host_ref", "host_group", "cluster_ref"}

\* the target options the caller supplied: set, and not the empty text
Supplied == {k \in TargetOptions : Truthy(last.call.target[k])}

IsPost(i) == wire[i].method = "POST"

IsResolutionError == last.out.k = "err" /\ last.out.cls = "ResolutionError"

(***************************************************************************)
(* C8: map_volume with no target option, or with host_ref and any other    *)
(* option, or with cluster_ref and any other option, fails with            *)
(* ResolutionError before any network call: no discovery, no lookup, no    *)
(* POST.                                                                   *)
(***************************************************************************)
C8_BadCombinationFailsLocally ==
    (/\ MapDone
     /\ \/ Supplied = {}
        \/ "host_ref" \in Supplied /\ Cardinality(Supplied) >= 2
        \/ "cluster_ref" \in Supplied /\ Cardinality(Supplied) >= 2) =>
        /\ IsResolutionError
        /\ wire = <<>>
        /\ client = pre

\* a host label together with a host reference was refused
C8_RefWithLabelRefused ==
    /\ MapDone
    /\ Supplied = {"host", "host_ref"}
    /\ IsResolutionError /\ wire = <<>>

(***************************************************************************)
(* C9: map_volume sends the mapping POST only when exactly one of the four *)
(* target options was supplied; a call supplying two or more, a host label *)
(* with a host-group label included, fails with ResolutionError and sends  *)
(* no POST.                                                                *)
(***************************************************************************)
C9_PostOnlyForExactlyOneOption ==
    MapDone =>
        /\ (\E i \in DOMAIN wire : IsPost(i)) => Cardinality(Supplied) = 1
        /\ Cardinality(Supplied) >= 2 =>
              /\ IsResolutionError
              /\ \A i \in DOMAIN wire : ~IsPost(i)

\* the answered list requests of the finished operation for path p
ListAnswers(p) ==
    {i \in DOMAIN wire :
        /\ wire[i].method = "GET" /\ ~IsDiscovery(wire[i])
        /\ Unscoped(Rel(wire[i])) = p
        /\ wire[i].resp.net = "ok" /\ ~Failed(wire[i].resp)
        /\ wire[i].resp.body.t = "list"}

Lowest(S) == CHOOSE k \in S : \A j \in S : k <= j

\* the entries a lookup by label alone would accept
ByLabel(entries, text) == {k \in DOMAIN entries : entries[k].label = text}

\* the entries get_by_name's documented rule accepts: label or name
ByLabelOrName(entries, text) ==
    {k \in DOMAIN entries : entries[k].label = text \/ entries[k].name = text}

\* the entries find_group's documented rule accepts: label, name, id or clusterRef
ByAnyGroupKey(entries, text) ==
    {k \in DOMAIN entries :
        \/ entries[k].label = text \/ entries[k].name = text
        \/ entries[k].id = text \/ entries[k].clusterRef = text}

\* the lookup's verdict, given the accepted entries M and the reference field
LookupOutcome(i, M, field, text) ==
    IF M = {} \/ ~Truthy(wire[i].resp.body.v[Lowest(M)][field])
    THEN /\ IsResolutionError
         /\ last.out.msg.arg = text
         /\ \A j \in DOMAIN wire : ~IsPost(j)
    ELSE /\ \E j \in DOMAIN wire : IsPost(j)
         /\ \A j \in DOMAIN wire : IsPost(j) =>
               /\ i < j
               /\ ToEndpoint(wire[j], CurrentOf("mappings.create"))
                  \/ ToEndpoint(wire[j], LegacyOf("mappings.create"))
               /\ wire[j].payload.targetId = wire[i].resp.body.v[Lowest(M)][field]
               /\ wire[j].payload.mappableObjectId = last.call.payload.mappableObjectId

ExpandDone == Done({"volumes.expand"})

\* limbs \div d and limbs % d for a small natural d, most significant limb first
RECURSIVE DivLimbs(_, _, _)
DivLimbs(limbs, d, rem) ==
    IF limbs = <<>> THEN [q |-> <<>>, r |-> rem]
    ELSE LET cur == rem * Limb + limbs[Len(limbs)]
             rest == DivLimbs(SubSeq(limbs, 1, Len(limbs) - 1), d, cur % d)
         IN  [q |-> Append(rest.q, cur \div d), r |-> rest.r]

\* limbs is exactly d^k times the limbs returned; <<-1>> when it is not
RECURSIVE DividedBy(_, _, _)
DividedBy(limbs, d, k) ==
    IF k = 0 THEN limbs
    ELSE IF DivLimbs(limbs, d, 0).r # 0 THEN <<-1>>
    ELSE DividedBy(Trimmed(DivLimbs(limbs, d, 0).q), d, k - 1)

\* the limbs of a natural below Limb * Limb
SmallLimbs(n) ==
    IF n = 0 THEN <<>> ELSE IF n < Limb THEN <<n>> ELSE <<n % Limb, n \div Limb>>

\* what the unit table promises: the base and the exponent of each unit
PromisedBase(key) == IF Len(key) = 3 THEN 1024 ELSE 1000
PromisedExponent(key) ==
    CASE key \in {<<"b", "y", "t", "e", "s">>, <<"b">>} -> 0
      [] key[1] = "m" -> 2
      [] key[1] = "g" -> 3
      [] key[1] = "t" -> 4

\* the expand POSTs of the finished operation
ExpandPosts ==
    {i \in DOMAIN wire :
        IsPost(i) /\ Unscoped(Rel(wire[i])) = <<"volumes", "vol1", "expand">>}

(***************************************************************************)
(* C11: for every integer amount and every unit of the table, in any       *)
(* letter case, volumes.expand POSTs to /volumes/<ref>/expand a payload    *)
(* with expansionSize = amount * the unit's multiplier (1; 1000^2, 1000^3, *)
(* 1000^4; 1024^2, 1024^3, 1024^4) and sizeUnit = "bytes"; 10 gb sends     *)
(* 10000000000 and 10 gib sends 10737418240.                               *)
(***************************************************************************)
C11_ExpansionSizeInBytes ==
    (ExpandDone /\ Lower(last.call.target.unit) \in UnitKeys) =>
        LET amount == last.call.target.expansion_size
            key == Lower(last.call.target.unit)
        IN  /\ last.out.k # "err" => ExpandPosts # {}
            /\ \A i \in DOMAIN wire : IsPost(i) => i \in ExpandPosts
            /\ \A i \in ExpandPosts :
                  /\ wire[i].payload.sizeUnit = "bytes"
                  /\ DOMAIN wire[i].payload = {"none", "expansionSize", "sizeUnit"}
                  /\ wire[i].payload.expansionSize.neg = (amount < 0)
                  /\ DividedBy(wire[i].payload.expansionSize.mag,
                               PromisedBase(key), PromisedExponent(key))
                        = SmallLimbs(IF amount < 0 THEN 0 - amount ELSE amount)
                  /\ (amount = 10 /\ key = <<"g", "b">>) =>
                        wire[i].payload.expansionSize.mag = <<0, 0, 100>>
                  /\ (amount = 10 /\ key = <<"g", "i", "b">>) =>
                        wire[i].payload.expansionSize.mag = <<8240, 3741, 107>>

\* 10 GiB, spelled with capitals, was sent as 10737418240 bytes
C11_TenGibSent ==
    /\ ExpandDone
    /\ last.call.target.expansion_size = 10
    /\ last.call.target.unit = <<"G", "i", "B">>
    /\ \E i \in ExpandPosts :
          wire[i].payload.expansionSize = [neg |-> FALSE, mag |-> <<8240, 3741, 107>>]
    /\ last.out.k = "ok"

(***************************************************************************)
(* C12: volumes.expand with a unit outside the table raises a local        *)
(* validation error naming the unit as given, makes no network call (no    *)
(* POST, no discovery even when the client has no system id yet) and       *)
(* leaves the cached system id and scope prefix as they were.              *)
(***************************************************************************)
C12_InvalidUnitFailsLocally ==
    (ExpandDone /\ Lower(last.call.target.unit) \notin UnitKeys) =>
        /\ last.out.k = "err"
        /\ last.out.cls = "ValueError"
        /\ last.out.msg.arg = last.call.target.unit
        /\ wire = <<>>
        /\ client._system_id = pre._system_id
        /\ client._scoped_prefix_cache = pre._scoped_prefix_cache

\* "KiB" refused on a client that has not discovered its system id
C12_KibRefusedBeforeDiscovery ==
    /\ ExpandDone
    /\ last.call.target.unit = <<"K", "i", "B">>
    /\ ~Truthy(pre._system_id)
    /\ last.out.cls = "ValueError" /\ wire = <<>>

DeleteGroupDone == Done({"hosts.delete_group"})

\* the DELETE /host-groups/<ref> requests of the finished operation
GroupDeletes ==
    {i \in DOMAIN wire :
        /\ wire[i].method = "DELETE"
        /\ Unscoped(Rel(wire[i])) = <<"host-groups", last.call.target.group_ref>>}

\* the GET /hosts requests of the finished operation
HostListings ==
    {i \in DOMAIN wire :
        wire[i].method = "GET" /\ Unscoped(Rel(wire[i])) = <<"hosts">>}

\* the positions of the listed hosts that belong to group ref
MembersIn(entries, ref) == {k \in DOMAIN entries : entries[k].clusterRef = ref}

(***************************************************************************)
(* C13: delete_group(ref, force=False) sends DELETE /host-groups/<ref>     *)
(* only after listing the hosts and only if no listed host has clusterRef  *)
(* = ref; if one has, it raises an error naming those hosts' labels and    *)
(* sends no DELETE; with force=True it sends the DELETE without listing    *)
(* the hosts.                                                              *)
(***************************************************************************)
C13_DeleteGroupGuard ==
    DeleteGroupDone =>
        /\ \A i \in DOMAIN wire :
              wire[i].method = "DELETE" => i \in GroupDeletes
        /\ Cardinality(GroupDeletes) <= 1
        /\ last.call.target.force =>
              /\ HostListings = {}
              /\ last.out.k = "ok" => GroupDeletes # {}
        /\ ~last.call.target.force =>
              /\ \A j \in GroupDeletes :
                    \E i \in ListAnswers(<<"hosts">>) :
                        /\ i < j
                        /\ MembersIn(wire[i].resp.body.v, last.call.target.group_ref) = {}
              /\ \A i \in ListAnswers(<<"hosts">>) :
                    LET members == MembersIn(wire[i].resp.body.v,
                                             last.call.target.group_ref)
                    IN  IF members # {}
                        THEN /\ GroupDeletes = {}
                             /\ last.out.k = "err"
                             /\ last.out.msg.tag = "group_not_empty"
                             /\ Len(last.out.msg.arg) = Cardinality(members)
                             /\ \A k \in members :
                                   \E n \in DOMAIN last.out.msg.arg :
                                       last.out.msg.arg[n] = wire[i].resp.body.v[k].label
                        ELSE GroupDeletes = {i + 1}

\* a group with a member host was not deleted, and the member was named
C13_MemberNamed ==
    /\ DeleteGroupDone /\ ~last.call.target.force
    /\ last.call.target.group_ref = "c1"
    /\ last.out.k = "err" /\ last.out.msg.tag = "group_not_empty"
    /\ last.out.msg.arg = <<"h2">>
    /\ \E i \in HostListings : Len(wire[i].resp.body.v) = 2
    /\ GroupDeletes = {}

HttpDone == Done({"http.request"})

(***************************************************************************)
(* C14: the outcome of one HTTP call follows from the response: a status   *)
(* outside [200,300) raises RequestError with that status code and the     *)
(* whole body as details, whatever the body is; a 2xx status with an empty *)
(* body returns null; a 2xx status with a JSON body returns the parsed     *)
(* value; a 2xx status with a non-empty body that is not JSON raises       *)
(* UnexpectedResponseError, which is not a RequestError.                   *)
(***************************************************************************)
C14_OutcomeByStatusThenBody ==
    HttpDone =>
        LET resp == input.resp
        IN  IF resp.status < 200 \/ resp.status >= 300
            THEN /\ last.out.k = "err"
                 /\ last.out.cls = "RequestError"
                 /\ last.out.status = resp.status
                 /\ last.out.details.body = resp.body
            ELSE IF resp.body.t = "empty"
            THEN last.out.k = "ok" /\ last.val = EmptyBody
            ELSE IF resp.body.t = "text"
            THEN /\ last.out.k = "err"
                 /\ last.out.cls = "UnexpectedResponseError"
                 /\ last.out.status = NoStatus
            ELSE last.out.k = "ok" /\ last.val = resp.body

\* a 500 answer whose body is not JSON became a RequestError carrying the body
C14_ErrorStatusWithTextBody ==
    /\ HttpDone
    /\ input.resp.status = 500 /\ input.resp.body = TextBody
    /\ last.out.cls = "RequestError" /\ last.out.details.body = TextBody

AnyOpDone == last.call.name # "" /\ last.out.k # "starved"

TransportFailures == {i \in DOMAIN wire : wire[i].resp.net = "connfail"}

(***************************************************************************)
(* C15: when the session raises a transport-level failure, the request     *)
(* raises RequestError whose message and details carry the cause's message *)
(* (the cause's class name when it has no message) and which has no status *)
(* code; no further request follows it, so a transport failure on a        *)
(* capability-dependent endpoint is never retried on the legacy endpoint.  *)
(***************************************************************************)
C15_TransportFailureNotRetried ==
    AnyOpDone =>
        \A i \in TransportFailures :
            /\ i = Len(wire)
            /\ last.out.k = "err"
            /\ last.out.cls = "RequestError"
            /\ last.out.status = NoStatus
            /\ last.out.details.kind = "reason"
            /\ last.out.details.reason = last.out.msg.arg
            /\ LET cause == wire[i].resp.body.v
               IN  last.out.msg.arg =
                       IF cause[2] \in {"", " "} THEN cause[1] ELSE cause[2]

\* a list/create on an endpoint with a different legacy endpoint met a refused
\* connection and ended there
C15_RefusedConnectionOnPrimary ==
    /\ Done(FallbackOps)
    /\ LegacyDiffers
    /\ \E i \in PrimaryRequests : i \in TransportFailures
    /\ last.out.details.reason = "connection refused"
    /\ LegacyRequests = {}

Rejections ==
    {i \in DOMAIN wire : wire[i].resp.net = "ok" /\ wire[i].resp.status = 401}

(***************************************************************************)
(* C16: a request that the server answers with HTTP 401 fails with         *)
(* AuthenticationError, which tells a rejected credential apart from the   *)
(* other request failures (RequestError).                                  *)
(***************************************************************************)
C16_RejectedCredentialIsAuthenticationError ==
    (AnyOpDone /\ Rejections # {}) =>
        /\ last.out.k = "err"
        /\ last.out.cls = "AuthenticationError"

(***************************************************************************)
(* C17: constructing a client with the SAML placeholder strategy succeeds; *)
(* every request made through such a client fails with AuthenticationError *)
(* when the strategy's apply is invoked, before any HTTP call is           *)
(* dispatched.                                                             *)
(***************************************************************************)
C17_SamlRequestIsAuthenticationError ==
    /\ (Done({"construct"}) /\ last.val.auth = SAMLAuthStub) => last.out.k = "ok"
    /\ (AnyOpDone /\ ~Done({"construct"}) /\ pre.auth = SAMLAuthStub) =>
           /\ wire = <<>>
           /\ last.out.k = "err"
           /\ last.out.cls = "AuthenticationError"

\* the Authorization header the strategy computes
AuthorizationOf(auth) ==
    IF auth.kind = "basic" THEN <<"Basic", auth.cred>> ELSE <<"Bearer", auth.cred>>

(***************************************************************************)
(* C18: every request a client dispatches (a facade call, the system-id    *)
(* discovery, the legacy retry) carries the Authorization header the auth  *)
(* strategy computes at that time, whatever Authorization the configured   *)
(* default headers hold; after update_token(t) every later request of the  *)
(* same client carries "Bearer t" and none carries the replaced token.     *)
(***************************************************************************)
C18_AuthorizationFromStrategyAtDispatch ==
    (AnyOpDone /\ ~Done({"construct"})) =>
        \A i \in DOMAIN wire :
            /\ wire[i].auth = AuthorizationOf(pre.auth)
            /\ input # <<>> => wire[i].auth # <<"Bearer", input[1]>>

\* after update_token("tok2") on a client whose default headers hold a stale
\* Authorization, the discovery, the refused primary request and the legacy
\* retry all carried "Bearer tok2"
C18_RefreshedTokenOnEveryRequest ==
    /\ Done({"mappings.list"})
    /\ input = <<"tok1">>
    /\ "Authorization" \in DOMAIN pre.default_headers
    /\ Len(wire) = 3
    /\ IsDiscovery(wire[1])
    /\ Retried
    /\ \A i \in DOMAIN wire : wire[i].auth = <<"Bearer", "tok2">>

ReportDone == Done({"mappings_report"}) /\ last.out.k = "ok"

\* the mapping objects the array listed for the finished report
ListedMappings == OrEmptyList(wire[Len(wire)].resp.body)

(***************************************************************************)
(* C19: mappings_report returns exactly one row per listed mapping, in the *)
(* listed order; every key of a raw mapping object keeps its original      *)
(* value in that mapping's row; the listed mapping objects themselves are  *)
(* not modified.                                                           *)
(***************************************************************************)
C19_RowsKeepMappingFields ==
    ReportDone =>
        /\ Len(last.val.v) = Len(ListedMappings)
        /\ \A i \in DOMAIN ListedMappings :
              \A key \in DOMAIN ListedMappings[i] :
                  /\ key \in DOMAIN last.val.v[i]
                  /\ last.val.v[i][key] = ListedMappings[i][key]
        /\ last.val.listed = ListedMappings

\* a mapping that came with its own targetLabel, poolName, capacity and a
\* null hostLabel was enriched (hostRef, raidLevel added) and kept all four
C19_OwnFieldsKeptWhileEnriched ==
    /\ ReportDone
    /\ Len(ListedMappings) = 2
    /\ Get(ListedMappings[2], "targetLabel") = "mine"
    /\ Get(ListedMappings[1], "targetId") = "r1"
    /\ LET row == last.val.v[2]
       IN  /\ row["targetLabel"] = "mine" /\ row["poolName"] = "mine"
           /\ row["capacity"] = "1" /\ row["hostLabel"] = NoneV
           /\ Get(row, "hostRef") = "r2"
           /\ Get(row, "raidLevel") = "raid6"
    /\ Get(last.val.v[1], "hostLabel") = "h1"

ListedHosts == OrEmptyList(wire[3].resp.body)
ListedGroups == OrEmptyList(wire[4].resp.body)

\* the positions in objs of the objects that carry id under one of the keys
Carrying(objs, keys, id) ==
    {i \in DOMAIN objs : \E key \in keys : Get(objs[i], key) = id}

\* the target id of a listed mapping
TargetOf(m) ==
    Or(Get(m, "targetId"),
       Or(Get(m, "clusterRef"), Or(Get(m, "hostRef"), Get(m, "hostGroup"))))

\* the label a host or host group is shown with
ShownAs(obj) == Or(Get(obj, "label"), Get(obj, "name"))

\* the mappings that bring no label of their own
Unlabelled ==
    {i \in DOMAIN ListedMappings :
        /\ DOMAIN ListedMappings[i] \cap {"hostLabel", "hostGroup", "targetLabel"} = {}
        /\ Truthy(TargetOf(ListedMappings[i]))}

(***************************************************************************)
(* C20: in mappings_report a mapping whose target id is a host's hostRef   *)
(* or id is labelled with that host's label; a mapping whose target id is  *)
(* a host group's clusterRef or id is labelled with that host group        *)
(* (targetLabel and hostGroup are the group's label), whatever the host    *)
(* list is, one holding member hosts of that group included.               *)
(***************************************************************************)
C20_TargetLabelledByOwner ==
    ReportDone =>
        \A i \in Unlabelled :
            LET t == TargetOf(ListedMappings[i])
                row == last.val.v[i]
                hs == Carrying(ListedHosts, {"hostRef", "id"}, t)
                gs == Carrying(ListedGroups, {"clusterRef", "id"}, t)
            IN  IF hs # {}
                THEN /\ Get(row, "hostLabel") = ShownAs(ListedHosts[Lowest(hs)])
                     /\ Get(row, "targetLabel") = ShownAs(ListedHosts[Lowest(hs)])
                ELSE gs # {} =>
                     /\ Get(row, "hostGroup") = ShownAs(ListedGroups[Lowest(gs)])
                     /\ Get(row, "targetLabel") = ShownAs(ListedGroups[Lowest(gs)])

ListedVolumes == OrEmptyList(wire[1].resp.body)
ListedPools == OrEmptyList(wire[2].resp.body)

\* the volume id of a listed mapping
VolumeOf(m) ==
    Or(Get(m, "volumeRef"),
       Or(Get(m, "mappableObjectId"),
          Or(Get(m, "mappableObjectRef"), Get(m, "mappableObject"))))

\* the pool id of a listed volume
PoolOf(vol) ==
    Or(Get(vol, "volumeGroupRef"), Or(Get(vol, "poolId"), Get(vol, "storagePoolId")))

\* the listed pool holding the volume of listed mapping i, as <<pool>>, or <<>>
PoolOfMapping(i) ==
    LET vs == Carrying(ListedVolumes,
                       {"volumeRef", "id", "mappableObjectId", "mappableObjectRef"},
                       VolumeOf(ListedMappings[i]))
    IN  IF ~Truthy(VolumeOf(ListedMappings[i])) \/ vs = {} THEN <<>>
        ELSE LET pool_id == PoolOf(ListedVolumes[Lowest(vs)])
                 ps == Carrying(ListedPools, {"id", "volumeGroupRef", "volumeGroupId"},
                                pool_id)
             IN  IF ~Truthy(pool_id) \/ ps = {} THEN <<>>
                 ELSE <<ListedPools[Lowest(ps)]>>

\* top-level raidLevel, else the first extent's, else the pool's type
PromisedRaid(pool) ==
    IF Truthy(Get(pool, "raidLevel")) THEN Get(pool, "raidLevel")
    ELSE IF "extents" \in DOMAIN pool /\ pool["extents"] # <<>>
            /\ Truthy(Get(pool["extents"][1], "raidLevel"))
    THEN Get(pool["extents"][1], "raidLevel")
    ELSE Get(pool, "type")

(***************************************************************************)
(* C21: in mappings_report, for a mapping whose volume resolves to a       *)
(* listed pool, the raidLevel added to the row is the pool's top-level     *)
(* raidLevel if present, else the raidLevel of the pool's first extent if  *)
(* present, else the pool's type field.                                    *)
(***************************************************************************)
C21_RaidLevelFallsBackToType ==
    ReportDone =>
        \A i \in DOMAIN ListedMappings :
            ("raidLevel" \notin DOMAIN ListedMappings[i] /\ PoolOfMapping(i) # <<>>
             /\ Truthy(PromisedRaid(PoolOfMapping(i)[1])))
            => Get(last.val.v[i], "raidLevel") = PromisedRaid(PoolOfMapping(i)[1])

(***************************************************************************)
(* C22: when a client is used as a scoped resource, its session is closed  *)
(* when the scope is left, on normal exit and when a request inside the    *)
(* scope raised; in the second case the raised error still reaches the     *)
(* caller after the close.                                                 *)
(***************************************************************************)
C22_ClosedOnEveryExit ==
    /\ input.scope = "left" => client._session.closed
    /\ input.scope \in {"none", "in"} => ~client._session.closed
    /\ Done({"with"}) => last.out = input.raised

\* a request inside the scope raised; the session is closed and the caller
\* of the with statement has the error
C22_ErrorAfterClose ==
    /\ Done({"with"})
    /\ client._session.closed
    /\ last.out.k = "err" /\ last.out.cls = "RequestError"

\* a non-blank string
Usable(x) == x # NoneV /\ Strip(x) # ""

\* the first entry's wwn when usable, otherwise its id when usable, or NoneV
PromisedId(first) ==
    IF Usable(first.wwn) THEN Strip(first.wwn)
    ELSE IF Usable(first.id) THEN Strip(first.id)
    ELSE NoneV

\* a finished list operation that began with a discovery answered by a list
DiscoveredFromList ==
    /\ Done({"volumes.list", "pools.list"})
    /\ ~Truthy(pre._system_id)
    /\ wire # <<>>
    /\ ~Failed(wire[1].resp) /\ wire[1].resp.body.t = "list"

(***************************************************************************)
(* C23: system-id discovery takes the first entry's wwn when that is a     *)
(* non-blank string and otherwise the first entry's id when that is a      *)
(* non-blank string; it fails with RequestError exactly when the           *)
(* /storage-systems list is empty or its first entry has neither.          *)
(***************************************************************************)
C23_WwnElseId ==
    DiscoveredFromList =>
        LET entries == wire[1].resp.body.v
        IN  IF entries = <<>> \/ PromisedId(entries[1]) = NoneV
            THEN /\ Len(wire) = 1
                 /\ last.out.k = "err" /\ last.out.cls = "RequestError"
                 /\ last.out.msg.tag = "no_system_id"
            ELSE /\ client._system_id = PromisedId(entries[1])
                 /\ Len(wire) = 2
                 /\ Rel(wire[2])[2] = PromisedId(entries[1])

CreateDone == Done({"pools.create_volume"})

\* the POSTs of the finished create_volume to the pool's endpoint and to /volumes
PoolPosts ==
    {i \in DOMAIN wire :
        /\ wire[i].method = "POST"
        /\ ToEndpoint(wire[i], Path(<<"storage-pools", last.call.target.pool_ref,
                                      "volumes">>))}

VolumePosts ==
    {i \in DOMAIN wire :
        wire[i].method = "POST" /\ ToEndpoint(wire[i], Path(<<"volumes">>))}

\* payload with poolId set to the pool when payload has none
PromisedBody == SetDefault(last.call.payload, "poolId", last.call.target.pool_ref)

(***************************************************************************)
(* C24: pools.create_volume(pool, payload) POSTs to                        *)
(* /storage-pools/<pool>/volumes a body equal to payload with poolId set   *)
(* to pool when payload has no poolId; if and only if that call is         *)
(* answered 404 or 405 it POSTs the same body once to /volumes and returns *)
(* that result; any other failure propagates without a second POST; the    *)
(* caller's payload object is never modified.                              *)
(***************************************************************************)
C24_LegacyCreateOnlyAfterRefusedPoolPost ==
    CreateDone =>
        /\ Cardinality(PoolPosts) <= 1 /\ Cardinality(VolumePosts) <= 1
        /\ \A i \in PoolPosts \cup VolumePosts : wire[i].payload = PromisedBody
        /\ VolumePosts # {} <=> \E i \in PoolPosts : Refused(wire[i])
        /\ \A i \in PoolPosts, j \in VolumePosts : i < j
        /\ \A i \in PoolPosts :
              (Failed(wire[i].resp) /\ ~Refused(wire[i])) =>
                  i = Len(wire) /\ last.out.k = "err"
        /\ input = last.call.payload

CliDone == Done({"cli.volumes.create"})

\* the requests of the finished command other than system-id discovery
CliRequests == {i \in DOMAIN wire : ~IsDiscovery(wire[i])}

IsVolumeListing(e) == e.method = "GET" /\ ToEndpoint(e, Path(<<"volumes">>))

\* the volume list the command was given, if it asked for one and got it
TakenNames ==
    IF \E i \in CliRequests : IsVolumeListing(wire[i]) /\ ~Failed(wire[i].resp)
                                 /\ wire[i].resp.body.t = "list"
    THEN LET i == CHOOSE j \in CliRequests : IsVolumeListing(wire[j])
         IN  {Get(wire[i].resp.body.v[k], "name") : k \in DOMAIN wire[i].resp.body.v}
    ELSE {}

SummaryDone == Done({"system.release_summary"})

\* the request went to the firmware-versions endpoint under the base URL
IsFirmwareQuery(e) ==
    /\ e.method = "GET" /\ ~e.url.raw
    /\ e.url.segs = pre.base_url \o <<"firmware", "embedded-firmware", "1", "versions">>

\* the request went to <root>/devmgr/utils/buildinfo
IsBuildInfoQuery(e) ==
    /\ e.method = "GET" /\ e.url.raw
    /\ Len(e.url.segs) >= 3
    /\ SubSeq(e.url.segs, Len(e.url.segs) - 2, Len(e.url.segs))
          = <<"devmgr", "utils", "buildinfo">>
    /\ \A k \in DOMAIN e.url.segs : e.url.segs[k] # "storage-systems"

\* the answer makes the call raise RequestError
AsRequestError(resp) == resp.net = "connfail" \/ (resp.net = "ok" /\ Failed(resp))

\* the answer is a JSON object
AsObject(resp) == ~Failed(resp) /\ resp.body.t = "obj"

\* the calls whose answers were RequestErrors, in the order of the calls
PromisedErrors ==
    SelectSeq(<<1, 2>>, LAMBDA i : i <= Len(wire) /\ AsRequestError(wire[i].resp))

\* the first non-blank value in the priority order, with its key
PromisedSelection(summary) ==
    CASE Truthy(summary.bundleDisplay) -> <<summary.bundleDisplay, "bundleDisplay">>
      [] ~Truthy(summary.bundleDisplay) /\ Truthy(summary.management) ->
            <<summary.management, "management">>
      [] ~Truthy(summary.bundleDisplay) /\ ~Truthy(summary.management)
           /\ Truthy(summary.symbolApi) -> <<summary.symbolApi, "symbolApi">>
      [] ~Truthy(summary.bundleDisplay) /\ ~Truthy(summary.management)
           /\ ~Truthy(summary.symbolApi) /\ Truthy(summary.symbolVersion) ->
            <<summary.symbolVersion, "symbolVersion">>
      [] OTHER -> <<NoneV, NoneV>>

(***************************************************************************)
(* C26: release_summary queries the firmware-versions endpoint and then    *)
(* the buildinfo endpoint, both without system scoping (no discovery, no   *)
(* scope prefix added); a RequestError from either call is recorded in the *)
(* errors list instead of being raised and does not prevent the other      *)
(* call; version and source are the first non-blank value in the order     *)
(* bundleDisplay, management, symbolApi, symbolVersion, or both null.      *)
(***************************************************************************)
C26_SummaryRecordsRequestErrors ==
    SummaryDone =>
        /\ wire # <<>> /\ IsFirmwareQuery(wire[1])
        /\ (AsRequestError(wire[1].resp) \/ AsObject(wire[1].resp)) =>
              Len(wire) = 2 /\ IsBuildInfoQuery(wire[2])
        /\ Len(wire) <= 2
        /\ client = pre
        /\ (\A i \in DOMAIN wire : AsRequestError(wire[i].resp) \/ AsObject(wire[i].resp)) =>
              /\ last.out.k = "ok"
              /\ Len(last.val.errors) = Len(PromisedErrors)
              /\ \A k \in DOMAIN last.val.errors :
                    last.val.errors[k].what =
                        (IF PromisedErrors[k] = 1 THEN "firmware versions" ELSE "buildinfo")
        /\ last.out.k = "ok" =>
              <<last.val.version, last.val.source>> = PromisedSelection(last.val)
        /\ last.out.k = "err" => last.out.cls # "RequestError"

\* the firmware endpoint is missing, the build info still gives the version
C26_MissingFirmwareEndpoint ==
    /\ SummaryDone
    /\ Len(wire) = 2 /\ wire[1].resp.status = 404 /\ AsObject(wire[2].resp)
    /\ last.out.k = "ok"
    /\ Len(last.val.errors) = 1
    /\ last.val.source = "symbolApi" /\ last.val.version = "1.5"

\* the discovery requests of the finished operation that were answered 404 or 405
RefusedDiscoveries == {i \in DOMAIN wire : OwnDiscovery(i) /\ Refused(wire[i])}

(***************************************************************************)
(* C27: a request reaches the legacy mapping or clone endpoint only if,    *)
(* earlier in the same operation, a request was sent to the current        *)
(* endpoint and answered 404 or 405; a 404 or 405 answer to the lazy       *)
(* discovery GET /storage-systems is followed neither by a request to the  *)
(* legacy endpoint nor by a second discovery request.                      *)
(***************************************************************************)
C27_DiscoveryRefusalIsNoEndpointRefusal ==
    Done(FallbackOps) =>
        /\ \A j \in LegacyRequests :
              (LegacyDiffers \/ \E i \in PrimaryRequests : i < j) =>
                  \E i \in PrimaryRequests : i < j /\ Refused(wire[i])
        /\ \A d \in RefusedDiscoveries :
              \A j \in DOMAIN wire :
                  j > d => ~IsDiscovery(wire[j]) /\ j \notin LegacyRequests

\* a finished list operation of a client that knew no system id
ListNeededDiscovery ==
    /\ Done({"volumes.list", "pools.list"})
    /\ ~Truthy(pre._system_id)
    /\ last.out.k # "starved"

\* the answer gives discovery nothing: an error, no list, an empty list, or
\* a first entry with neither wwn nor id
NothingToDiscover(resp) ==
    \/ Failed(resp)
    \/ resp.body.t # "list"
    \/ resp.body.v = <<>>
    \/ PromisedId(resp.body.v[1]) = NoneV

(***************************************************************************)
(* C28: when system-id discovery fails (error response, empty list, no     *)
(* usable identifier) the cached system id and scope prefix stay unset and *)
(* config.system_id is unchanged, and the request that needed the scope is *)
(* not dispatched; a client whose system id is unset attempts discovery on *)
(* its next scoped request; the discovery call is the unscoped GET         *)
(* /storage-systems and one request is preceded by at most one of them.    *)
(***************************************************************************)
C28_FailedDiscoveryLeavesNoTrace ==
    ListNeededDiscovery =>
        /\ wire # <<>> /\ IsDiscovery(wire[1])
        /\ wire[1].url.segs = pre.base_url \o <<"storage-systems">>
        /\ Cardinality({i \in DOMAIN wire : IsDiscovery(wire[i])}) = 1
        /\ NothingToDiscover(wire[1].resp) =>
              /\ client._system_id = pre._system_id
              /\ ~PathTruthy(client._scoped_prefix_cache)
              /\ client.config_system_id = pre.config_system_id
              /\ Len(wire) = 1
              /\ last.out.k = "err"
        /\ ~Truthy(client._system_id) =>
              /\ client = pre
              /\ Len(wire) = 1

\* discovery answered with a list whose first entry has no identifier
C28_NoIdentifierNoRequest ==
    /\ ListNeededDiscovery
    /\ ~Failed(wire[1].resp) /\ wire[1].resp.body.t = "list"
    /\ wire[1].resp.body.v # <<>>
    /\ NothingToDiscover(wire[1].resp)
    /\ Len(wire) = 1 /\ client = pre

\* the GET /hosts and GET /host-groups requests that succeeded with no body
NullListings ==
    {i \in DOMAIN wire :
        /\ wire[i].method = "GET"
        /\ Unscoped(Rel(wire[i])) \in {<<"hosts">>, <<"host-groups">>}
        /\ ~Failed(wire[i].resp)
        /\ wire[i].resp.body.t = "empty"}

(***************************************************************************)
(* C29: when GET /hosts or GET /host-groups succeeds with an empty body,   *)
(* the operations that search the list treat it as an empty list:          *)
(* map_volume with a label fails with ResolutionError, and the             *)
(* delete_group(force=False) guard finds no member and proceeds to the     *)
(* DELETE; none of them fails with any other kind of error.                *)
(***************************************************************************)
C29_NullListIsEmptyList ==
    /\ (DeleteGroupDone /\ ~last.call.target.force /\ NullListings # {}) =>
          /\ GroupDeletes # {}
          /\ \A i \in NullListings : \E j \in GroupDeletes : i < j
          /\ last.out.k = "err" => last.out.cls \notin {"TypeError", "AttributeError"}
    /\ (Done({"mappings.map_volume"}) /\ NullListings # {}) =>
          /\ last.out.k = "err"
          /\ last.out.cls = "ResolutionError"

\* request i is under a /storage-systems/<id> scope that the client chose:
\* the one of its base URL, or the prefix it put before the path
ClientScoped(i) ==
    ~wire[i].url.raw /\ (BaseScoped(pre.base_url) \/ Injected(i))

\* the storage-system id in the URL of such a request
ScopeInUrl(i) ==
    IF BaseScoped(pre.base_url) THEN _detect_scoped_base(pre.base_url)[2]
    ELSE Rel(wire[i])[2]

(***************************************************************************)
(* C30: the storage-system id a client records (config.system_id and the   *)
(* system_id written to the request log) equals the storage-system id in   *)
(* the URL of every scoped request it dispatches, for every combination of *)
(* construction inputs, an explicit system_id together with a base URL     *)
(* that embeds /storage-systems/<other-id> included.                       *)
(***************************************************************************)
C30_RecordedIdIsTheIdInTheUrl ==
    OpDone =>
        \A i \in DOMAIN wire :
            ClientScoped(i) =>
                /\ wire[i].logged = ScopeInUrl(i)
                /\ client.config_system_id = ScopeInUrl(i)

=============================================================================
